---- MODULE Spec2Model ----
(***************************************************************************)
(* Model of the daymeta calendar core: the civil-date utilities, the       *)
(* table-driven lunar conversion (TableLunarAlgorithm) and the Korean      *)
(* substitute-holiday policies.  A YMD value is the string the code        *)
(* passes around, modelled as a sequence of one-character strings, so      *)
(* formatYMD / parseYMD are real conversions and Set membership of dates   *)
(* is string equality.                                                     *)
(***************************************************************************)
EXTENDS Integers, Sequences, FiniteSets, TLC

VARIABLES
    dataMap,        \* TableLunarAlgorithm.dataMap: year -> row
    yearRange,      \* TableLunarAlgorithm.yearRange: <<min, max>>
    lunarOp,        \* which conversion was called last ("none" before any call)
    lunarIn,        \* its argument (a YMD string or a lunar date record)
    lunarOut,       \* its outcome: [err |-> "none", val |-> ...] or an error
    lunarBack,      \* the outcome of the opposite conversion applied to lunarOut.val
    policyYear,     \* the year argument of the substitute policy call
    eligible,       \* KoreanSubstitutePolicy.eligible: id -> fromYear
    baseHolidays,   \* the holiday list handed to the policy
    subOp,          \* which policy function ran ("none" before any call)
    substitutes,    \* the list it returned
    warned,         \* dates for which the exhaustion warning was logged
    rules,          \* JsonHolidayProvider.rules
    lunarProvider,  \* JsonHolidayProvider.lunarProvider: "table" or "none"
    cache,          \* JsonHolidayProvider.cache: year -> array
    yearHolidaysCache, \* CalendarContext.yearHolidaysCache: key -> array
    heap,           \* the arrays allocated so far; an array is its index here
    calls,          \* the calls made on the instance and where each one stands
    callOp,         \* which loader or utility function ran ("none" before any)
    callIn,         \* its arguments
    callOut         \* what it returned, or the error it threw

vars == <<dataMap, yearRange, lunarOp, lunarIn, lunarOut, lunarBack,
          policyYear, eligible, baseHolidays, subOp, substitutes, warned,
          rules, lunarProvider, cache, yearHolidaysCache, heap, calls,
          callOp, callIn, callOut>>

utilVars == <<callOp, callIn, callOut>>

provVars == <<rules, lunarProvider, cache, yearHolidaysCache, heap, calls>>

lunarVars == <<dataMap, yearRange, lunarOp, lunarIn, lunarOut, lunarBack>>
subVars == <<policyYear, eligible, baseHolidays, subOp, substitutes, warned>>

(***************************************************************************)
(* Strings and numbers                                                     *)
(***************************************************************************)
DigitChars == <<"0", "1", "2", "3", "4", "5", "6", "7", "8", "9">>

HexChars == <<"0", "1", "2", "3", "4", "5", "6", "7", "8", "9",
              "A", "B", "C", "D", "E", "F">>

\* The value of each hex digit character.
HexValues == [c \in {HexChars[i] : i \in 1..16} |->
                 (CHOOSE i \in 1..16 : HexChars[i] = c) - 1]

IsHex(c) == c \in DOMAIN HexValues

HexVal(c) == HexValues[c]

IsDigit(c) == IsHex(c) /\ HexValues[c] < 10

DigitVal(c) == HexValues[c]

RECURSIVE NatStr(_)
NatStr(n) == IF n < 10 THEN <<DigitChars[n + 1]>>
             ELSE NatStr(n \div 10) \o <<DigitChars[(n % 10) + 1]>>

\* String(n) of JavaScript for an integer n.
NumStr(n) == IF n < 0 THEN <<"-">> \o NatStr(-n) ELSE NatStr(n)

\* s.padStart(2, "0")
PadStart2(s) == IF Len(s) = 0 THEN <<"0", "0">>
                ELSE IF Len(s) = 1 THEN <<"0">> \o s
                ELSE s

\* s.split("-"): the pieces between the separators, empty pieces kept.
RECURSIVE SplitDash(_, _, _)
SplitDash(s, i, cur) ==
    IF i > Len(s) THEN <<cur>>
    ELSE IF s[i] = "-" THEN <<cur>> \o SplitDash(s, i + 1, <<>>)
    ELSE SplitDash(s, i + 1, Append(cur, s[i]))

\* A Number that is not a number; no arithmetic of the model produces it.
NaN == -(10 ^ 9)

RECURSIVE DigitsVal(_, _, _)
DigitsVal(s, i, acc) ==
    IF i > Len(s) THEN acc
    ELSE IF IsDigit(s[i]) THEN DigitsVal(s, i + 1, acc * 10 + DigitVal(s[i]))
    ELSE NaN

\* Number(piece) for a piece of a split date string: "" is 0, digits are
\* their value, anything else is NaN.
ToNumber(s) == DigitsVal(s, 1, 0)

\* parseInt(s, 16): an optional "0x" prefix, then hex digits up to the first
\* character that is not one; NaN when there is no digit.
RECURSIVE HexPrefixVal(_, _, _)
HexPrefixVal(s, i, acc) ==
    IF i > Len(s) \/ ~IsHex(s[i]) THEN acc
    ELSE HexPrefixVal(s, i + 1, acc * 16 + HexVal(s[i]))

ParseIntHex(s) ==
    LET from(start) == IF start > Len(s) \/ ~IsHex(s[start]) THEN NaN
                       ELSE HexPrefixVal(s, start, 0)
    IN from(IF Len(s) >= 2 /\ s[1] = "0" /\ s[2] = "x" THEN 3 ELSE 1)

\* a.localeCompare(b) < 0 on date strings made of digits and "-".
CharRank(c) == IF c = "-" THEN 0 ELSE 1 + DigitVal(c)

RECURSIVE StrLess(_, _, _)
StrLess(a, b, i) ==
    IF i > Len(a) THEN i <= Len(b)
    ELSE IF i > Len(b) THEN FALSE
    ELSE IF a[i] = b[i] THEN StrLess(a, b, i + 1)
    ELSE CharRank(a[i]) < CharRank(b[i])

(***************************************************************************)
(* Civil date utilities (utils/civil-date)                                 *)
(***************************************************************************)
isLeapYear(year) ==
    (year % 4 = 0 /\ year % 100 # 0) \/ year % 400 = 0

daysInYear(year) == IF isLeapYear(year) THEN 366 ELSE 365

DaysInMonth(y, m) ==
    IF m = 2 THEN (IF isLeapYear(y) THEN 29 ELSE 28)
    ELSE IF m \in {4, 6, 9, 11} THEN 30 ELSE 31

\* Days of year y before the first of month m.
DaysBeforeMonth(y, m) ==
    <<0, 31, 59, 90, 120, 151, 181, 212, 243, 273, 304, 334>>[m]
        + (IF m > 2 /\ isLeapYear(y) THEN 1 ELSE 0)

\* Days from 0001-01-01 to the first of January of year y.
DaysBeforeYear(y) ==
    365 * (y - 1) + ((y - 1) \div 4) - ((y - 1) \div 100) + ((y - 1) \div 400)

\* Date.UTC(y, monthIndex, d) as a day number: years 0..99 mean 1900..1999,
\* a month index outside 0..11 and a day outside the month carry over.
DateUTC(y, monthIndex, d) ==
    LET at(y2, m2) == DaysBeforeYear(y2) + DaysBeforeMonth(y2, m2) + d - 1
    IN at((IF y >= 0 /\ y <= 99 THEN 1900 + y ELSE y) + (monthIndex \div 12),
          (monthIndex % 12) + 1)

\* getUTCFullYear / getUTCMonth + 1 / getUTCDate of a day number.
CivilFromDay(n) ==
    LET inMonth(y, r, m) == [y |-> y, m |-> m, d |-> r - DaysBeforeMonth(y, m) + 1]
        inYear(y, r) ==
            inMonth(y, r, CHOOSE c \in 1..12 :
                              DaysBeforeMonth(y, c) <= r
                              /\ r < DaysBeforeMonth(y, c) + DaysInMonth(y, c))
        ofYear(y) == inYear(y, n - DaysBeforeYear(y))
    IN ofYear(CHOOSE c \in ((n \div 366) + 1)..((n \div 365) + 1) :
                  DaysBeforeYear(c) <= n /\ n < DaysBeforeYear(c + 1))

parseYMD(ymd) ==
    LET num(parts, i) == IF i <= Len(parts) THEN ToNumber(parts[i]) ELSE NaN
        civil(parts) == [y |-> num(parts, 1), m |-> num(parts, 2), d |-> num(parts, 3)]
    IN civil(SplitDash(ymd, 1, <<>>))

formatYMD(civil) ==
    NumStr(civil.y) \o <<"-">> \o PadStart2(NumStr(civil.m))
        \o <<"-">> \o PadStart2(NumStr(civil.d))

\* getUTCDay: 0001-01-01 is a Monday.
dayOfWeek(ymd) ==
    LET getUTCDay(c) == (DateUTC(c.y, c.m - 1, c.d) + 1) % 7
    IN getUTCDay(parseYMD(ymd))

dayOfYear(ymd) ==
    LET diffDays(c) == DateUTC(c.y, c.m - 1, c.d) - DateUTC(c.y, 0, 1)
    IN diffDays(parseYMD(ymd)) + 1

ymdFromDayOfYear(year, doy) ==
    formatYMD(CivilFromDay(DateUTC(year, 0, 1) + (doy - 1)))

addDays(ymd, delta) ==
    LET setUTCDate(c) == CivilFromDay(DateUTC(c.y, c.m - 1, c.d) + delta)
    IN formatYMD(setUTCDate(parseYMD(ymd)))

(***************************************************************************)
(* Lunar year table rows (LunarYearData) used to construct the algorithm   *)
(***************************************************************************)
Row2023 == [y |-> 2023, ny |-> 22, leap |-> 2,
            mask |-> <<"0", "x", "1", "A", "9", "6">>]

Row2023Kasi == [y |-> 2023, ny |-> 22, leap |-> 2,
               mask |-> <<"0", "x", "1", "5", "A", "A">>]

Row2024 == [y |-> 2024, ny |-> 41, leap |-> 0,
            mask |-> <<"0", "x", "6", "D", "2">>]

\* 2025: lunar new year on 2025-01-29, leap month 6, regular month 6 of 30
\* days (2025-06-25 .. 2025-07-24), 384 days up to 2026-02-17.
Row2025 == [y |-> 2025, ny |-> 29, leap |-> 6,
            mask |-> <<"0", "x", "E", "A", "5">>]

FixtureRows == {Row2023, Row2023Kasi, Row2024, Row2025}

\* The arrays a TableLunarAlgorithm is constructed from: any non-empty
\* selection of rows with one row per year (tests filter the rows by year).
TableInputs ==
    {data \in SUBSET FixtureRows :
        data # {} /\ \A r1, r2 \in data : r1.y = r2.y => r1 = r2}

\* constructor: dataMap
NewDataMap(data) ==
    [yy \in {r.y : r \in data} |-> CHOOSE r \in data : r.y = yy]

\* constructor: yearRange
NewYearRange(data) ==
    LET years == {r.y : r \in data}
    IN <<CHOOSE a \in years : \A b \in years : a <= b,
         CHOOSE a \in years : \A b \in years : a >= b>>

(***************************************************************************)
(* TableLunarAlgorithm                                                     *)
(***************************************************************************)
Ok(v) == [err |-> "none", val |-> v]

Fail(e) == [err |-> e, val |-> "none"]

NotRun == [err |-> "notrun", val |-> "none"]

\* A plausible slip: the last year of the table left out.
supportsExclusive(year) == year >= yearRange[1] /\ year < yearRange[2]

supports(year) == year >= yearRange[1] /\ year <= yearRange[2]

\* A plausible slip: every month taken as 30 days.
MonthLenAlways30(maskNum, idx) == 30

\* 29 + ((maskNum >> (idx - 1)) & 1)
MonthLen(maskNum, idx) == 29 + ((maskNum \div (2 ^ (idx - 1))) % 2)

\* A plausible slip: the leap flag put on the regular month, not the slot after it.
MapMonthIndexOffByOne(leap, monthIndex) ==
    IF leap = 0 THEN [month |-> monthIndex, isLeapMonth |-> FALSE]
    ELSE IF monthIndex < leap THEN [month |-> monthIndex, isLeapMonth |-> FALSE]
    ELSE IF monthIndex = leap THEN [month |-> leap, isLeapMonth |-> TRUE]
    ELSE [month |-> monthIndex - 1, isLeapMonth |-> FALSE]

\* The (month, isLeapMonth) a table-order month index is reported as.
MapMonthIndex(leap, monthIndex) ==
    IF leap = 0 THEN [month |-> monthIndex, isLeapMonth |-> FALSE]
    ELSE IF monthIndex <= leap THEN [month |-> monthIndex, isLeapMonth |-> FALSE]
    ELSE IF monthIndex = leap + 1 THEN [month |-> leap, isLeapMonth |-> TRUE]
    ELSE [month |-> monthIndex - 1, isLeapMonth |-> FALSE]

\* The for loop of findLunarMonthDay, from monthIndex on.
RECURSIVE FindMonthLoop(_, _, _, _, _, _)
FindMonthLoop(lunarYear, leap, maskNum, monthIndex, daysAccum, daysSinceLunarNY) ==
    LET found(mapped) ==
            Ok([year |-> lunarYear,
                month |-> mapped.month,
                day |-> daysSinceLunarNY - daysAccum + 1,
                isLeapMonth |-> mapped.isLeapMonth])
        step(monthLen) ==
            IF daysSinceLunarNY < daysAccum + monthLen
                THEN found(MapMonthIndex(leap, monthIndex))
            ELSE FindMonthLoop(lunarYear, leap, maskNum, monthIndex + 1,
                               daysAccum + monthLen, daysSinceLunarNY)
    IN IF monthIndex > (IF leap > 0 THEN 13 ELSE 12) THEN Fail("FailedToFind")
       ELSE step(MonthLen(maskNum, monthIndex))

findLunarMonthDay(lunarYear, daysSinceLunarNY) ==
    IF lunarYear \notin DOMAIN dataMap THEN Fail("MissingLunarYear")
    ELSE FindMonthLoop(lunarYear, dataMap[lunarYear].leap,
                       ParseIntHex(dataMap[lunarYear].mask), 1, 0,
                       daysSinceLunarNY)

\* A plausible slip: the new year's day itself sent to the previous year.
InCurrentLunarYearStrict(solarDOY, ny) == solarDOY > ny

\* solarDOY >= rowSY.ny: the date is in the lunar year named like its solar year.
InCurrentLunarYear(solarDOY, ny) == solarDOY >= ny

solarToLunar(date) ==
    LET prevYearEnd(solarYear) ==
            dayOfYear(formatYMD([y |-> solarYear - 1, m |-> 12, d |-> 31]))
        convert(solarYear, solarDOY) ==
            IF ~supports(solarYear) THEN Fail("OutOfRange")
            \* dataMap.get(solarYear)! of a year with no row, then .ny
            ELSE IF solarYear \notin DOMAIN dataMap THEN Fail("TypeError")
            ELSE IF InCurrentLunarYear(solarDOY, dataMap[solarYear].ny)
                THEN findLunarMonthDay(solarYear, solarDOY - dataMap[solarYear].ny)
            ELSE IF (solarYear - 1) \notin DOMAIN dataMap THEN Fail("MissingPrevYear")
            ELSE findLunarMonthDay(solarYear - 1,
                     prevYearEnd(solarYear) - dataMap[solarYear - 1].ny + solarDOY)
    IN convert(parseYMD(date).y, dayOfYear(date))

\* A plausible slip: the leap month's days not added after its regular month.
RECURSIVE DaysBeforeLunarMonthNoLeap(_, _, _, _)
DaysBeforeLunarMonthNoLeap(leap, maskNum, month, m) ==
    IF m >= month THEN 0
    ELSE MonthLen(maskNum, IF leap = 0 THEN m ELSE IF m <= leap THEN m ELSE m + 1)
         + DaysBeforeLunarMonthNoLeap(leap, maskNum, month, m + 1)

\* The for loop of lunarToSolar over the months before `month`, from m on.
RECURSIVE DaysBeforeLunarMonth(_, _, _, _)
DaysBeforeLunarMonth(leap, maskNum, month, m) ==
    IF m >= month THEN 0
    ELSE MonthLen(maskNum, IF leap = 0 THEN m ELSE IF m <= leap THEN m ELSE m + 1)
         + (IF leap > 0 /\ m = leap THEN MonthLen(maskNum, leap + 1) ELSE 0)
         + DaysBeforeLunarMonth(leap, maskNum, month, m + 1)

\* A plausible slip: the month of a leap flag not compared with the row's.
LeapCheckNoMonth(leap, month, isLeapMonth) ==
    IF leap = 0 THEN (IF isLeapMonth THEN "NoLeapMonth" ELSE "none")
    ELSE "none"

\* The leap-month validation of lunarToSolar: the error it throws, if any.
LeapCheck(leap, month, isLeapMonth) ==
    IF leap = 0 THEN (IF isLeapMonth THEN "NoLeapMonth" ELSE "none")
    ELSE IF isLeapMonth /\ month # leap THEN "WrongLeapMonth"
    ELSE "none"

lunarToSolar(lunar) ==
    IF ~supports(lunar.year) THEN Fail("OutOfRange")
    ELSE IF lunar.year \notin DOMAIN dataMap THEN Fail("TypeError")
    ELSE LET daysSinceLunarNY(row, maskNum) ==
                 DaysBeforeLunarMonth(row.leap, maskNum, lunar.month, 1)
                 + (IF lunar.isLeapMonth /\ row.leap > 0 /\ lunar.month = row.leap
                    THEN MonthLen(maskNum, row.leap) ELSE 0)
                 + (lunar.day - 1)
             toYMD(nyYear, solarDOY, yearEnd) ==
                 IF solarDOY <= yearEnd THEN Ok(ymdFromDayOfYear(nyYear, solarDOY))
                 ELSE Ok(ymdFromDayOfYear(nyYear + 1, solarDOY - yearEnd))
             inYear(nyYear, solarDOY) ==
                 toYMD(nyYear, solarDOY,
                       dayOfYear(formatYMD([y |-> nyYear, m |-> 12, d |-> 31])))
             convert(row, check) ==
                 IF check # "none" THEN Fail(check)
                 ELSE inYear(parseYMD(ymdFromDayOfYear(lunar.year, row.ny)).y,
                             row.ny + daysSinceLunarNY(row, ParseIntHex(row.mask)))
         IN convert(dataMap[lunar.year],
                    LeapCheck(dataMap[lunar.year].leap, lunar.month, lunar.isLeapMonth))

(***************************************************************************)
(* Calls of the lunar conversions                                          *)
(***************************************************************************)
YearsOutside == 1
MaxLunarDay == 31

FixtureYears == {r.y : r \in FixtureRows}

InputYears ==
    ((CHOOSE a \in FixtureYears : \A b \in FixtureYears : a <= b) - YearsOutside)
    .. ((CHOOSE a \in FixtureYears : \A b \in FixtureYears : a >= b) + YearsOutside)

\* Every calendar date of the input years, as the string callers pass.
SolarInputs ==
    {formatYMD(c) :
        c \in {x \in [y : InputYears, m : 1..12, d : 1..31] :
                  x.d <= DaysInMonth(x.y, x.m)}}

\* Lunar dates callers may pass, valid or not (days past the month's end,
\* leap flags on months that are not leap).
LunarInputs ==
    [year : InputYears, month : 1..12, day : 1..MaxLunarDay,
     isLeapMonth : BOOLEAN]

NoPolicyCall ==
    /\ policyYear = 0
    /\ eligible = <<>>
    /\ baseHolidays = <<>>
    /\ subOp = "none"
    /\ substitutes = <<>>
    /\ warned = <<>>

\* No loader or utility function has been called.
NoUtilCall ==
    /\ callOp = "none"
    /\ callIn = <<>>
    /\ callOut = NotRun

\* No holiday provider or calendar is in use.
NoProviderCall ==
    /\ rules = <<>>
    /\ lunarProvider = "none"
    /\ cache = <<>>
    /\ yearHolidaysCache = <<>>
    /\ heap = <<>>
    /\ calls = <<>>

InitLunar ==
    /\ NoProviderCall
    /\ NoUtilCall
    /\ \E data \in TableInputs :
          /\ dataMap = NewDataMap(data)
          /\ yearRange = NewYearRange(data)
    /\ lunarOp = "none"
    /\ lunarIn = "none"
    /\ lunarOut = NotRun
    /\ lunarBack = NotRun
    /\ NoPolicyCall

CallSolarToLunar ==
    /\ lunarOp = "none"
    /\ \E date \in SolarInputs :
          /\ lunarIn' = date
          /\ lunarOut' = solarToLunar(date)
    /\ lunarOp' = "solarToLunar"
    /\ UNCHANGED <<dataMap, yearRange, lunarBack, subVars, provVars, utilVars>>

CallLunarToSolar ==
    /\ lunarOp = "none"
    /\ \E lunar \in LunarInputs :
          /\ lunarIn' = lunar
          /\ lunarOut' = lunarToSolar(lunar)
    /\ lunarOp' = "lunarToSolar"
    /\ UNCHANGED <<dataMap, yearRange, lunarBack, subVars, provVars, utilVars>>

\* lunarToSolar(solarToLunar(d)): the second call of the round trip.
BackToSolar ==
    /\ lunarOp = "solarToLunar"
    /\ lunarOut.err = "none"
    /\ lunarBack.err = "notrun"
    /\ lunarBack' = lunarToSolar(lunarOut.val)
    /\ UNCHANGED <<dataMap, yearRange, lunarOp, lunarIn, lunarOut, subVars, provVars, utilVars>>

\* solarToLunar(lunarToSolar(L)): the second call of the round trip.
BackToLunar ==
    /\ lunarOp = "lunarToSolar"
    /\ lunarOut.err = "none"
    /\ lunarBack.err = "notrun"
    /\ lunarBack' = solarToLunar(lunarOut.val)
    /\ UNCHANGED <<dataMap, yearRange, lunarOp, lunarIn, lunarOut, subVars, provVars, utilVars>>

NextLunar ==
    \/ CallSolarToLunar
    \/ CallLunarToSolar
    \/ BackToSolar
    \/ BackToLunar

SpecLunar == InitLunar /\ [][NextLunar]_vars

(***************************************************************************)
(* KoreanSubstitutePolicy (policies/kr)                                    *)
(***************************************************************************)
MaxAttempts == 10

\* The item pushed by apply (its Korean name field is left out).
SubstituteItem(date, forDate) ==
    [date |-> date, id |-> "KR_SUBSTITUTE", kind |-> "SUBSTITUTE",
     nameEn |-> "Substitute Holiday", substituteFor |-> forDate]

\* const fromYear = this.eligible.get(holiday.id);
\* the holiday is skipped if (!fromYear || year < fromYear).
IsEligible(year, holiday) ==
    /\ holiday.id \in DOMAIN eligible
    /\ eligible[holiday.id] # 0
    /\ year >= eligible[holiday.id]

IsWeekendDay(ymd) == dayOfWeek(ymd) \in {0, 6}

\* A plausible slip: Saturdays not counted as weekend days by rule 1.
WeekendRuleSundayOnly(holiday) ==
    dayOfWeek(holiday.date) = 0 /\ holiday.variant = "DAY"

\* Rule 1: the holiday is a DAY entry on a Saturday or Sunday.
WeekendRule(holiday) == IsWeekendDay(holiday.date) /\ holiday.variant = "DAY"

\* A plausible slip: the first occupant of a shared date treated as secondary too.
CollisionRuleAnyOccupant(holidays, i) ==
    /\ \E j \in 1..Len(holidays) : j # i /\ holidays[j].date = holidays[i].date
    /\ holidays[i].variant = "DAY"

\* Rule 2: sameDay.length > 1 and sameDay.indexOf(holiday) > 0, for a DAY
\* entry.  The items of the list are distinct objects, so the index of the
\* i-th item among those of its date is the number of earlier ones.
CollisionRule(holidays, i) ==
    /\ \E j \in 1..Len(holidays) : j # i /\ holidays[j].date = holidays[i].date
    /\ \E j \in 1..(i - 1) : holidays[j].date = holidays[i].date
    /\ holidays[i].variant = "DAY"

\* A plausible slip: only the DAY date itself looked at by rule 3.
FestivalRuleDayOnly(holiday) ==
    /\ holiday.id \in {"KR_SEOLLAL", "KR_CHUSEOK"}
    /\ holiday.variant = "DAY"
    /\ dayOfWeek(holiday.date) = 0

\* Rule 3: the DAY entry of Seollal or Chuseok with a Sunday among the day
\* before, the day and the day after.
FestivalRule(holiday) ==
    /\ holiday.id \in {"KR_SEOLLAL", "KR_CHUSEOK"}
    /\ holiday.variant = "DAY"
    /\ \/ dayOfWeek(addDays(holiday.date, -1)) = 0
       \/ dayOfWeek(holiday.date) = 0
       \/ dayOfWeek(addDays(holiday.date, 1)) = 0

NeedsSubstitute(holidays, i) ==
    \/ WeekendRule(holidays[i])
    \/ CollisionRule(holidays, i)
    \/ FestivalRule(holidays[i])

\* A plausible slip: occupied dates not looked at by the search.
IsFreeDayIgnoringHolidays(substituteDate, allHolidayDates) ==
    ~IsWeekendDay(substituteDate)

\* !isWeekendDay && !isHoliday
IsFreeDay(substituteDate, allHolidayDates) ==
    ~IsWeekendDay(substituteDate) /\ substituteDate \notin allHolidayDates

\* The while loop of apply: the date found, and the attempts left (0 when
\* the loop ran out).
RECURSIVE FindSubstituteDate(_, _, _)
FindSubstituteDate(substituteDate, maxAttempts, allHolidayDates) ==
    IF maxAttempts <= 0 THEN [found |-> FALSE, date |-> substituteDate]
    ELSE IF IsFreeDay(substituteDate, allHolidayDates)
         THEN [found |-> TRUE, date |-> substituteDate]
    ELSE FindSubstituteDate(addDays(substituteDate, 1), maxAttempts - 1,
                            allHolidayDates)

\* A plausible slip: the found date not added to the occupied dates.
OccupyNothing(allHolidayDates, substituteDate) == allHolidayDates

\* allHolidayDates.add(substituteDate)
Occupy(allHolidayDates, substituteDate) == allHolidayDates \cup {substituteDate}

\* A plausible slip: the loop left at the first holiday with no free day.
RECURSIVE ApplyLoopAbort(_, _, _, _, _, _)
ApplyLoopAbort(year, holidays, i, subs, allHolidayDates, warnings) ==
    IF i > Len(holidays)
        THEN [substitutes |-> subs, warned |-> warnings]
    ELSE IF ~IsEligible(year, holidays[i]) \/ ~NeedsSubstitute(holidays, i)
        THEN ApplyLoopAbort(year, holidays, i + 1, subs, allHolidayDates, warnings)
    ELSE LET next(r) ==
                 IF r.found
                 THEN ApplyLoopAbort(year, holidays, i + 1,
                          Append(subs, SubstituteItem(r.date, holidays[i].date)),
                          Occupy(allHolidayDates, r.date), warnings)
                 ELSE [substitutes |-> subs,
                       warned |-> Append(warnings, holidays[i].date)]
         IN next(FindSubstituteDate(addDays(holidays[i].date, 1), MaxAttempts,
                                    allHolidayDates))

\* The for loop of apply over baseHolidays, from the i-th item on.
RECURSIVE ApplyLoop(_, _, _, _, _, _)
ApplyLoop(year, holidays, i, subs, allHolidayDates, warnings) ==
    IF i > Len(holidays)
        THEN [substitutes |-> subs, warned |-> warnings]
    ELSE IF ~IsEligible(year, holidays[i]) \/ ~NeedsSubstitute(holidays, i)
        THEN ApplyLoop(year, holidays, i + 1, subs, allHolidayDates, warnings)
    ELSE LET next(r) ==
                 IF r.found
                 THEN ApplyLoop(year, holidays, i + 1,
                          Append(subs, SubstituteItem(r.date, holidays[i].date)),
                          Occupy(allHolidayDates, r.date), warnings)
                 ELSE ApplyLoop(year, holidays, i + 1, subs, allHolidayDates,
                          Append(warnings, holidays[i].date))
         IN next(FindSubstituteDate(addDays(holidays[i].date, 1), MaxAttempts,
                                    allHolidayDates))

apply(year, holidays) ==
    ApplyLoop(year, holidays, 1, <<>>,
              {holidays[j].date : j \in 1..Len(holidays)}, <<>>)

(***************************************************************************)
(* calculateSubstituteHolidays (kr/holidayPolicy), on the date utilities   *)
(* of date/utils                                                           *)
(***************************************************************************)
LegacyMaxAttempts == 14

\* date/utils getWeekday: new Date(y, m - 1, d).getDay()
getWeekday(ymd) ==
    LET getDay(c) == (DateUTC(c.y, c.m - 1, c.d) + 1) % 7
    IN getDay(parseYMD(ymd))

\* date/utils addDays: setDate(getDate() + days), formatted from the local fields
legacyAddDays(ymd, days) ==
    LET setDate(c) == CivilFromDay(DateUTC(c.y, c.m - 1, c.d) + days)
    IN formatYMD(setDate(parseYMD(ymd)))

\* [...holidays].sort((a, b) => a.date.localeCompare(b.date)): stable.
RECURSIVE InsertByDate(_, _)
InsertByDate(sorted, h) ==
    IF sorted = <<>> THEN <<h>>
    ELSE IF StrLess(h.date, sorted[Len(sorted)].date, 1)
         THEN Append(InsertByDate(SubSeq(sorted, 1, Len(sorted) - 1), h),
                     sorted[Len(sorted)])
    ELSE Append(sorted, h)

RECURSIVE SortByDate(_)
SortByDate(items) ==
    IF items = <<>> THEN <<>>
    ELSE InsertByDate(SortByDate(SubSeq(items, 1, Len(items) - 1)),
                      items[Len(items)])

DefaultPolicy == [eligibleHolidays |-> {}, applySaturday |-> TRUE, applySunday |-> TRUE]

LegacySubstituteItem(date, holiday) ==
    [date |-> date, name |-> <<holiday.name, " (substitute)">>,
     kind |-> "SUBSTITUTE", substituteFor |-> holiday.date]

RECURSIVE LegacyFindDate(_, _, _)
LegacyFindDate(candidateDate, attempts, holidayDates) ==
    IF attempts >= LegacyMaxAttempts THEN [found |-> FALSE, date |-> candidateDate]
    ELSE IF getWeekday(candidateDate) \notin {0, 6}
            /\ candidateDate \notin holidayDates
         THEN [found |-> TRUE, date |-> candidateDate]
    ELSE LegacyFindDate(legacyAddDays(candidateDate, 1), attempts + 1, holidayDates)

LegacyShouldApply(policy, holiday) ==
    /\ ~(policy.eligibleHolidays # {} /\ holiday.name \notin policy.eligibleHolidays)
    /\ \/ (getWeekday(holiday.date) = 6 /\ policy.applySaturday)
       \/ (getWeekday(holiday.date) = 0 /\ policy.applySunday)

RECURSIVE LegacyLoop(_, _, _, _, _, _)
LegacyLoop(policy, sortedHolidays, i, subs, holidayDates, warnings) ==
    IF i > Len(sortedHolidays)
        THEN [substitutes |-> subs, warned |-> warnings]
    ELSE IF ~LegacyShouldApply(policy, sortedHolidays[i])
        THEN LegacyLoop(policy, sortedHolidays, i + 1, subs, holidayDates, warnings)
    ELSE LET next(r) ==
                 IF r.found
                 THEN LegacyLoop(policy, sortedHolidays, i + 1,
                          Append(subs, LegacySubstituteItem(r.date, sortedHolidays[i])),
                          holidayDates \cup {r.date}, warnings)
                 ELSE LegacyLoop(policy, sortedHolidays, i + 1, subs, holidayDates,
                          Append(warnings, sortedHolidays[i].date))
         IN next(LegacyFindDate(legacyAddDays(sortedHolidays[i].date, 1), 0,
                                holidayDates))

calculateSubstituteHolidays(holidays, policy) ==
    LegacyLoop(policy, SortByDate(holidays), 1, <<>>,
               {holidays[j].date : j \in 1..Len(holidays)}, <<>>)

(***************************************************************************)
(* Calls of the substitute policies                                        *)
(***************************************************************************)
MaxHolidays == 3
MaxRunPrefix == 2
RunLength == 10

\* 2024-01-06 is a Saturday.
WindowStart == formatYMD([y |-> 2024, m |-> 1, d |-> 6])

\* A weekend and the Monday after it.
WindowDates == {WindowStart, addDays(WindowStart, 1), addDays(WindowStart, 2)}

\* The kinds of entries a holiday list holds: the DAY and a padding day of a
\* 3-day festival, a one-day eligible holiday, and a holiday with no
\* substitute right and no variant (an extra holiday).
ItemKinds ==
    {[id |-> "KR_SEOLLAL", variant |-> "DAY"],
     [id |-> "KR_SEOLLAL", variant |-> "PRE"],
     [id |-> "KR_SAMIL", variant |-> "DAY"],
     [id |-> "KR_TEMP", variant |-> "none"]}

Item(date, k) ==
    [date |-> date, id |-> k.id, kind |-> "STATUTORY", name |-> k.id,
     variant |-> k.variant]

Items == {Item(d, k) : d \in WindowDates, k \in ItemKinds}

\* A run of holidays on the consecutive days after the window.
RECURSIVE HolidayRun(_)
HolidayRun(n) ==
    IF n = 0 THEN <<>>
    ELSE Append(HolidayRun(n - 1),
                Item(addDays(WindowStart, 2 + n),
                     [id |-> "KR_TEMP", variant |-> "none"]))

HolidayLists ==
    UNION {[1..n -> Items] : n \in 0..MaxHolidays}

LongRun == HolidayRun(RunLength)

\* One day shorter: the last day the search tries after the Monday is free.
ShorterRun == HolidayRun(RunLength - 1)

\* Lists of up to MaxHolidays entries in any order, and the short ones
\* followed by a run of holidays.
BaseInputs ==
    HolidayLists
        \cup {hs \o LongRun : hs \in {l \in HolidayLists : Len(l) <= MaxRunPrefix}}
        \cup {hs \o ShorterRun : hs \in {l \in HolidayLists : Len(l) <= MaxRunPrefix}}

EligibleData == [KR_SEOLLAL |-> 2014, KR_SAMIL |-> 2021]

NoLunarCall ==
    /\ dataMap = NewDataMap({Row2024})
    /\ yearRange = NewYearRange({Row2024})
    /\ lunarOp = "none"
    /\ lunarIn = "none"
    /\ lunarOut = NotRun
    /\ lunarBack = NotRun

InitSub ==
    /\ policyYear = 2024
    /\ eligible = EligibleData
    /\ baseHolidays \in BaseInputs
    /\ subOp = "none"
    /\ substitutes = <<>>
    /\ warned = <<>>
    /\ NoLunarCall
    /\ NoProviderCall
    /\ NoUtilCall

CallApply ==
    /\ subOp = "none"
    /\ LET return(r) == substitutes' = r.substitutes /\ warned' = r.warned
       IN return(apply(policyYear, baseHolidays))
    /\ subOp' = "apply"
    /\ UNCHANGED <<policyYear, eligible, baseHolidays, lunarVars, provVars, utilVars>>

CallCalculateSubstituteHolidays ==
    /\ subOp = "none"
    /\ LET return(r) == substitutes' = r.substitutes /\ warned' = r.warned
       IN return(calculateSubstituteHolidays(baseHolidays, DefaultPolicy))
    /\ subOp' = "calculateSubstituteHolidays"
    /\ UNCHANGED <<policyYear, eligible, baseHolidays, lunarVars, provVars, utilVars>>

NextSub ==
    \/ CallApply
    \/ CallCalculateSubstituteHolidays

SpecSub == InitSub /\ [][NextSub]_vars

(***************************************************************************)
(* Direct calls of KoreanSubstitutePolicy.apply: any eligibility table,    *)
(* holidays on Sundays a week apart, listed in any order                   *)
(***************************************************************************)
MaxListed == 2

\* The from years of policy data: none given as 0, a past and a later year.
FromYears == {0, 2021, 2025}

\* new Map(policyData.eligible.map((e) => [e.id, e.from]))
EligibleTables ==
    UNION {[ids -> FromYears] : ids \in SUBSET {"KR_SEOLLAL", "KR_SAMIL"}}

PolicyYears == {2021, 2024}

\* 2024-01-07 and 2024-01-14 are Sundays.
ListedDates == {addDays(WindowStart, 1), addDays(WindowStart, 8)}

ListedItems ==
    {Item(d, k) : d \in ListedDates,
                  k \in {[id |-> "KR_SEOLLAL", variant |-> "DAY"],
                          [id |-> "KR_SAMIL", variant |-> "DAY"],
                          [id |-> "KR_TEMP", variant |-> "none"]}}

ListedInputs == UNION {[1..n -> ListedItems] : n \in 0..MaxListed}

InitApply ==
    /\ policyYear \in PolicyYears
    /\ eligible \in EligibleTables
    /\ baseHolidays \in ListedInputs
    /\ subOp = "none"
    /\ substitutes = <<>>
    /\ warned = <<>>
    /\ NoLunarCall
    /\ NoProviderCall
    /\ NoUtilCall

NextApply == CallApply

SpecApply == InitApply /\ [][NextApply]_vars

(***************************************************************************)
(* JsonHolidayProvider and TableLunarProvider (providers/holiday/json)     *)
(***************************************************************************)
\* null; `!baseDate` holds of it.
Null == <<>>

\* A plausible slip: the error of the conversion not caught.
toSolarRethrow(lunar) == lunarToSolar(lunar)

\* TableLunarProvider.toSolar: the date, or null when lunarToSolar throws.
toSolar(lunar) ==
    LET caught(r) == IF r.err = "none" THEN r ELSE Ok(Null)
    IN caught(lunarToSolar(lunar))

\* rule.pad?.before ?? 0 and rule.pad?.after ?? 0; pad is <<>> when absent.
PadBefore(ruleData) == IF ruleData.pad = <<>> THEN 0 ELSE ruleData.pad[1]

PadAfter(ruleData) == IF ruleData.pad = <<>> THEN 0 ELSE ruleData.pad[2]

\* A plausible slip: every padded item marked DAY.
VariantOfAlwaysDay(offset) == "DAY"

VariantOf(offset) ==
    IF offset < 0 THEN "PRE" ELSE IF offset > 0 THEN "POST" ELSE "DAY"

\* The item pushed for a rule (its English name is left out).
HolidayOf(ruleData, date, variant) ==
    [date |-> date, id |-> ruleData.id, kind |-> ruleData.kind,
     name |-> ruleData.name, variant |-> variant]

\* for (let offset = -before; offset <= after; offset++)
RECURSIVE PadItems(_, _, _, _)
PadItems(ruleData, baseDate, offset, after) ==
    IF offset > after THEN <<>>
    ELSE <<HolidayOf(ruleData, addDays(baseDate, offset), VariantOf(offset))>>
         \o PadItems(ruleData, baseDate, offset + 1, after)

\* processRule: the items of one rule, or the error that escapes it.
processRule(year, ruleData) ==
    IF ruleData.type = "fixed_solar"
        THEN Ok(<<HolidayOf(ruleData,
                            formatYMD([y |-> year, m |-> ruleData.month,
                                       d |-> ruleData.day]),
                            "DAY")>>)
    ELSE IF ruleData.type = "fixed_lunar"
        THEN IF lunarProvider = "none" THEN Ok(<<>>)
             ELSE LET expand(baseDate) ==
                          IF baseDate.err # "none" THEN baseDate
                          ELSE IF baseDate.val = Null THEN Ok(<<>>)
                          ELSE Ok(PadItems(ruleData, baseDate.val,
                                           -PadBefore(ruleData), PadAfter(ruleData)))
                  IN expand(toSolar([year |-> year, month |-> ruleData.month,
                                     day |-> ruleData.day, isLeapMonth |-> FALSE]))
    ELSE Ok(<<>>)

(***************************************************************************)
(* Calls of getBaseHolidays and listHolidays on one instance.  A call runs *)
(* from one await to the next in one step; the await of toSolar inside     *)
(* processRule touches nothing shared and is folded into the rule's step.  *)
(***************************************************************************)
\* A call not made yet.
IdleCall ==
    [op |-> "none", year |-> 0, pc |-> "idle", next |-> 0, holidays |-> <<>>,
     hit |-> FALSE, base |-> 0, result |-> 0, includeSubstitute |-> TRUE]

\* getBaseHolidays returns the array `ref`: a getBaseHolidays call is done, a
\* listHolidays call goes on after its await.
BaseReturned(call, ref) ==
    IF call.op = "getBaseHolidays"
        THEN [call EXCEPT !.pc = "done", !.result = ref, !.holidays = <<>>]
    ELSE [call EXCEPT !.pc = "merge", !.base = ref, !.holidays = <<>>]

\* A plausible slip: a sort that does not keep equal dates in their order.
SortedForCacheTiesReversed(holidays) ==
    SortByDate([i \in 1..Len(holidays) |-> holidays[Len(holidays) + 1 - i]])

\* holidays.sort((a, b) => a.date.localeCompare(b.date))
SortedForCache(holidays) == SortByDate(holidays)

\* Lines 81-87 of getBaseHolidays: sort, cache.set(year, holidays), return.
StoreBase(c, call, holidays) ==
    /\ heap' = Append(heap, SortedForCache(holidays))
    /\ cache' = (call.year :> (Len(heap) + 1)) @@ cache
    /\ calls' = [calls EXCEPT ![c] = BaseReturned(call, Len(heap) + 1)]

\* A plausible slip: the cache not consulted.
EnterGetBaseHolidaysNoCache(c, call) ==
    IF rules = <<>>
        THEN StoreBase(c, call, <<>>)
    ELSE /\ calls' = [calls EXCEPT ![c] = [call EXCEPT !.pc = "rules", !.next = 1]]
         /\ UNCHANGED <<cache, heap>>

\* getBaseHolidays up to its first await.
EnterGetBaseHolidays(c, call) ==
    IF call.year \in DOMAIN cache
        THEN /\ calls' = [calls EXCEPT
                             ![c] = BaseReturned([call EXCEPT !.hit = TRUE],
                                                 cache[call.year])]
             /\ UNCHANGED <<cache, heap>>
    ELSE IF rules = <<>>
        THEN StoreBase(c, call, <<>>)
    ELSE /\ calls' = [calls EXCEPT ![c] = [call EXCEPT !.pc = "rules", !.next = 1]]
         /\ UNCHANGED <<cache, heap>>

StartGetBaseHolidays(c, year) ==
    /\ calls[c].pc = "idle"
    /\ EnterGetBaseHolidays(c, [IdleCall EXCEPT !.op = "getBaseHolidays",
                                                !.year = year])
    /\ UNCHANGED <<rules, lunarProvider, yearHolidaysCache, lunarVars, subVars, utilVars>>

\* const cacheKey = hasExtras ? null : includeSubstitute ? year : -year,
\* without extra holidays.
cacheKey(year, includeSubstitute) == IF includeSubstitute THEN year ELSE -year

\* listHolidays(year, {includeSubstitute}) without extra holidays and with
\* Sundays included, up to its first await.
StartListHolidaysWith(c, year, includeSubstitute) ==
    /\ calls[c].pc = "idle"
    /\ LET entered(key, call) ==
               IF key \in DOMAIN yearHolidaysCache
                   THEN /\ calls' = [calls EXCEPT
                                        ![c] = [call EXCEPT
                                                   !.pc = "done", !.hit = TRUE,
                                                   !.result = yearHolidaysCache[key]]]
                        /\ UNCHANGED <<cache, heap>>
               ELSE EnterGetBaseHolidays(c, call)
       IN entered(cacheKey(year, includeSubstitute),
                  [IdleCall EXCEPT !.op = "listHolidays", !.year = year,
                                   !.includeSubstitute = includeSubstitute])
    /\ UNCHANGED <<rules, lunarProvider, yearHolidaysCache, lunarVars, subVars, utilVars>>

\* listHolidays(year) with the default options: substitutes included, the
\* cache key is the year.
StartListHolidays(c, year) == StartListHolidaysWith(c, year, TRUE)

\* A plausible slip: the list cached after every rule, not after the last.
ResumeProcessRuleCachingEarly(c) ==
    /\ calls[c].pc = "rules"
    /\ LET pushed(call, items) ==
               IF items.err # "none"
                   THEN /\ calls' = [calls EXCEPT ![c] = [call EXCEPT !.pc = "threw"]]
                        /\ UNCHANGED <<cache, heap>>
               ELSE IF call.next < Len(rules)
                   THEN /\ calls' = [calls EXCEPT
                                        ![c] = [call EXCEPT
                                                   !.next = call.next + 1,
                                                   !.holidays = call.holidays \o items.val]]
                        /\ heap' = Append(heap, SortedForCache(call.holidays \o items.val))
                        /\ cache' = (call.year :> (Len(heap) + 1)) @@ cache
               ELSE StoreBase(c, call, call.holidays \o items.val)
       IN pushed(calls[c], processRule(calls[c].year, rules[calls[c].next]))
    /\ UNCHANGED <<rules, lunarProvider, yearHolidaysCache, lunarVars, subVars, utilVars>>

\* The await of processRule resumes: the items are pushed, and after the last
\* rule the list is sorted, cached and returned.
ResumeProcessRule(c) ==
    /\ calls[c].pc = "rules"
    /\ LET pushed(call, items) ==
               IF items.err # "none"
                   THEN /\ calls' = [calls EXCEPT ![c] = [call EXCEPT !.pc = "threw"]]
                        /\ UNCHANGED <<cache, heap>>
               ELSE IF call.next < Len(rules)
                   THEN /\ calls' = [calls EXCEPT
                                        ![c] = [call EXCEPT
                                                   !.next = call.next + 1,
                                                   !.holidays = call.holidays \o items.val]]
                        /\ UNCHANGED <<cache, heap>>
               ELSE StoreBase(c, call, call.holidays \o items.val)
       IN pushed(calls[c], processRule(calls[c].year, rules[calls[c].next]))
    /\ UNCHANGED <<rules, lunarProvider, yearHolidaysCache, lunarVars, subVars, utilVars>>

\* The await of getBaseHolidays in listHolidays resumes.  With substitutes
\* they are computed and a new merged list is sorted, cached and returned;
\* without them the array of the provider itself is cached and returned.
ResumeListHolidays(c) ==
    /\ calls[c].pc = "merge"
    /\ LET merged(baseList) ==
               SortByDate(baseList \o apply(calls[c].year, baseList).substitutes)
           stored(ref) ==
               /\ yearHolidaysCache' =
                      (cacheKey(calls[c].year, calls[c].includeSubstitute) :> ref)
                          @@ yearHolidaysCache
               /\ calls' = [calls EXCEPT ![c] = [@ EXCEPT !.pc = "done",
                                                          !.result = ref]]
       IN IF calls[c].includeSubstitute
              THEN /\ heap' = Append(heap, merged(heap[calls[c].base]))
                   /\ stored(Len(heap) + 1)
          ELSE /\ heap' = heap
               /\ stored(calls[c].base)
    /\ UNCHANGED <<rules, lunarProvider, cache, lunarVars, subVars, utilVars>>

\* The years asked for: two years of the table and the year after it.
CallYears == {2024, 2025, 2026}

NextProvider ==
    \E c \in DOMAIN calls :
        \/ \E year \in CallYears : StartGetBaseHolidays(c, year)
        \/ \E year \in CallYears : StartListHolidays(c, year)
        \/ ResumeProcessRule(c)
        \/ ResumeListHolidays(c)

(***************************************************************************)
(* One caller at a time, over rule lists and lunar providers               *)
(***************************************************************************)
MaxRules == 2
MaxPad == 1

NewYearRule ==
    [id |-> "KR_NEWYEAR", kind |-> "STATUTORY", name |-> "New Year",
     type |-> "fixed_solar", month |-> 1, day |-> 1, pad |-> <<>>]

ChildrenRule ==
    [id |-> "KR_CHILDREN", kind |-> "STATUTORY", name |-> "Children",
     type |-> "fixed_solar", month |-> 5, day |-> 5, pad |-> <<>>]

SeollalRule ==
    [id |-> "KR_SEOLLAL", kind |-> "STATUTORY", name |-> "Seollal",
     type |-> "fixed_lunar", month |-> 1, day |-> 1, pad |-> <<1, 1>>]

\* Lunar 4/8 (2025-05-05 in 2025, the date of Children's Day), padded by
\* `pad`: <<>> for no pad, or <<before, after>>.
BuddhaRule(pad) ==
    [id |-> "KR_BUDDHA", kind |-> "STATUTORY", name |-> "Buddha",
     type |-> "fixed_lunar", month |-> 4, day |-> 8, pad |-> pad]

Pads == {<<>>} \cup ((0..MaxPad) \X (0..MaxPad))

RuleChoices ==
    {NewYearRule, ChildrenRule, SeollalRule} \cup {BuddhaRule(pad) : pad \in Pads}

\* The rules of a rules file, in declaration order; ids are not repeated.
RuleLists ==
    {rs \in UNION {[1..n -> RuleChoices] : n \in 0..MaxRules} :
        \A i, j \in DOMAIN rs : rs[i].id = rs[j].id => i = j}

\* The tables of the lunar provider: 2024..2025, and 2023..2025 without a
\* row for 2024.
ProviderTables == {{Row2024, Row2025}, {Row2023, Row2025}}

\* new JsonHolidayProvider(rules, lunarProvider?) in a calendar with the
\* Korean substitute policy; both caches start empty.
NewProvider(callers) ==
    /\ cache = <<>>
    /\ yearHolidaysCache = <<>>
    /\ heap = <<>>
    /\ calls = [c \in callers |-> IdleCall]
    /\ NoUtilCall
    /\ lunarOp = "none"
    /\ lunarIn = "none"
    /\ lunarOut = NotRun
    /\ lunarBack = NotRun
    /\ policyYear = 0
    /\ eligible = EligibleData
    /\ baseHolidays = <<>>
    /\ subOp = "none"
    /\ substitutes = <<>>
    /\ warned = <<>>

InitProvider ==
    /\ rules \in RuleLists
    /\ \/ /\ lunarProvider = "table"
          /\ \E data \in ProviderTables :
                /\ dataMap = NewDataMap(data)
                /\ yearRange = NewYearRange(data)
       \/ /\ lunarProvider = "none"
          /\ dataMap = NewDataMap({Row2024, Row2025})
          /\ yearRange = NewYearRange({Row2024, Row2025})
    /\ NewProvider({1})

SpecProvider == InitProvider /\ [][NextProvider]_vars

(***************************************************************************)
(* One caller, over rule lists with a holiday of the twelfth lunar month   *)
(***************************************************************************)
\* A holiday on the 15th of the twelfth lunar month.
LunarYearEndRule ==
    [id |-> "KR_LUNAR_YEAREND", kind |-> "STATUTORY", name |-> "Lunar year end",
     type |-> "fixed_lunar", month |-> 12, day |-> 15, pad |-> <<>>]

YearEndRuleLists ==
    {rs \in UNION {[1..n -> {NewYearRule, SeollalRule, LunarYearEndRule}] :
                       n \in 0..MaxRules} :
        \A i, j \in DOMAIN rs : rs[i].id = rs[j].id => i = j}

InitYearEnd ==
    /\ rules \in YearEndRuleLists
    /\ lunarProvider = "table"
    /\ dataMap = NewDataMap({Row2024, Row2025})
    /\ yearRange = NewYearRange({Row2024, Row2025})
    /\ NewProvider({1})

SpecYearEnd == InitYearEnd /\ [][NextProvider]_vars

(***************************************************************************)
(* Concurrent callers of one provider                                      *)
(***************************************************************************)
NumCallers == 2

\* The rules of the concurrent runs, declared out of date order.
SharedRules == <<ChildrenRule, SeollalRule, NewYearRule>>

InitCache ==
    /\ rules = SharedRules
    /\ lunarProvider = "table"
    /\ dataMap = NewDataMap({Row2024, Row2025})
    /\ yearRange = NewYearRange({Row2024, Row2025})
    /\ NewProvider(1..NumCallers)

SpecCache == InitCache /\ [][NextProvider]_vars

(***************************************************************************)
(* Callers of listHolidays with and without substitutes, over the years    *)
(* whose cache keys meet                                                   *)
(***************************************************************************)
\* 1 March, eligible for a substitute from 2021; a Saturday in 2025.
SamilRule ==
    [id |-> "KR_SAMIL", kind |-> "STATUTORY", name |-> "Samil",
     type |-> "fixed_solar", month |-> 3, day |-> 1, pad |-> <<>>]

\* The years asked for: a year, the year of its negated number, and year 0.
KeyYears == {-2025, 0, 2025}

NextKeys ==
    \E c \in DOMAIN calls :
        \/ \E year \in KeyYears, includeSubstitute \in BOOLEAN :
              StartListHolidaysWith(c, year, includeSubstitute)
        \/ ResumeProcessRule(c)
        \/ ResumeListHolidays(c)

InitKeys ==
    /\ rules = <<SamilRule>>
    /\ lunarProvider = "table"
    /\ dataMap = NewDataMap({Row2024, Row2025})
    /\ yearRange = NewYearRange({Row2024, Row2025})
    /\ NewProvider(1..NumCallers)

SpecKeys == InitKeys /\ [][NextKeys]_vars

(***************************************************************************)
(* Callers that change the lists they were given                           *)
(***************************************************************************)
\* An item of the caller's own.
CallerItem ==
    [date |-> <<"2", "0", "2", "4", "-", "1", "2", "-", "2", "5">>,
     id |-> "CALLER_ITEM", kind |-> "TEMPORARY", name |-> "Caller", variant |-> "DAY"]

\* The caller of a finished call pushes an item of its own onto the array
\* the call returned (once per array).
CallerPush(c) ==
    /\ calls[c].pc = "done"
    /\ \A i \in 1..Len(heap[calls[c].result]) :
          heap[calls[c].result][i] # CallerItem
    /\ heap' = [heap EXCEPT ![calls[c].result] = Append(@, CallerItem)]
    /\ UNCHANGED <<rules, lunarProvider, cache, yearHolidaysCache, calls,
                   lunarVars, subVars, utilVars>>

\* The caller of a finished call renames the first item of the array the call
\* returned.
CallerEdit(c) ==
    /\ calls[c].pc = "done"
    /\ heap[calls[c].result] # <<>>
    /\ heap[calls[c].result][1].name # "Edited"
    /\ heap' = [heap EXCEPT ![calls[c].result][1].name = "Edited"]
    /\ UNCHANGED <<rules, lunarProvider, cache, yearHolidaysCache, calls,
                   lunarVars, subVars, utilVars>>

\* The years the callers ask for.
MutateYears == {2024, 2025}

NextMutate ==
    \E c \in DOMAIN calls :
        \/ \E year \in MutateYears : StartGetBaseHolidays(c, year)
        \/ \E year \in MutateYears : StartListHolidays(c, year)
        \/ ResumeProcessRule(c)
        \/ ResumeListHolidays(c)
        \/ CallerPush(c)
        \/ CallerEdit(c)

InitMutate ==
    /\ rules = <<NewYearRule, SeollalRule>>
    /\ lunarProvider = "table"
    /\ dataMap = NewDataMap({Row2024, Row2025})
    /\ yearRange = NewYearRange({Row2024, Row2025})
    /\ NewProvider(1..NumCallers)

SpecMutate == InitMutate /\ [][NextMutate]_vars

(***************************************************************************)
(* Loading the data documents (createTableLunarProvider,                   *)
(* createJsonHolidayProvider, createKoreanSubstitutePolicy,                *)
(* createKoreanCalendar)                                                   *)
(***************************************************************************)
\* The schema tags found in the documents: the tag each loader compares with
\* and other tags.
LunarTags == {"kr.lunar.v1", "kr.lunar.v0"}
RulesTags == {"holiday.rules.v1", "kr.holidays.v1", "holiday.rules.v0"}
PolicyTags == {"kr.substitute.v1", "kr.substitute.v0"}

LunarDocuments ==
    [schema : LunarTags, rows : {{Row2024}, {Row2024, Row2025}}]

RulesDocuments ==
    [schema : RulesTags, rules : {<<NewYearRule>>, SharedRules}]

PolicyDocuments ==
    [schema : PolicyTags,
     eligible : {EligibleData, [KR_SEOLLAL |-> 2014]}]

\* An object a loader constructed, with the tag of the document it was
\* constructed from.
Constructed(engine, document) == [engine |-> engine, schema |-> document.schema]

\* The documents are on disk and nothing is constructed.
InitLoad ==
    /\ callIn \in [lunar : LunarDocuments, holidays : RulesDocuments,
                    policy : PolicyDocuments]
    /\ callOp = "none"
    /\ callOut = NotRun
    /\ dataMap = <<>>
    /\ yearRange = <<>>
    /\ lunarOp = "none"
    /\ lunarIn = "none"
    /\ lunarOut = NotRun
    /\ lunarBack = NotRun
    /\ NoPolicyCall
    /\ NoProviderCall

\* if (data.default.schema !== tag) throw new Error(...)
SchemaCheck(document, tag) == document.schema = tag

CallCreateTableLunarProvider ==
    /\ callOp = "none"
    /\ callOp' = "createTableLunarProvider"
    /\ IF ~SchemaCheck(callIn.lunar, "kr.lunar.v1")
           THEN /\ callOut' = Fail("Invalid lunar data schema")
                /\ UNCHANGED <<dataMap, yearRange>>
       ELSE /\ dataMap' = NewDataMap(callIn.lunar.rows)
            /\ yearRange' = NewYearRange(callIn.lunar.rows)
            /\ callOut' = Ok({Constructed("TableLunarProvider", callIn.lunar)})
    /\ UNCHANGED <<callIn, lunarOp, lunarIn, lunarOut, lunarBack, subVars, provVars>>

\* Called without a lunar provider.
CallCreateJsonHolidayProvider ==
    /\ callOp = "none"
    /\ callOp' = "createJsonHolidayProvider"
    /\ IF ~SchemaCheck(callIn.holidays, "holiday.rules.v1")
           THEN /\ callOut' = Fail("Invalid holiday rules schema")
                /\ UNCHANGED rules
       ELSE /\ rules' = callIn.holidays.rules
            /\ callOut' = Ok({Constructed("JsonHolidayProvider", callIn.holidays)})
    /\ UNCHANGED <<callIn, lunarVars, subVars, lunarProvider, cache,
                   yearHolidaysCache, heap, calls>>

CallCreateKoreanSubstitutePolicy ==
    /\ callOp = "none"
    /\ callOp' = "createKoreanSubstitutePolicy"
    /\ IF ~SchemaCheck(callIn.policy, "kr.substitute.v1")
           THEN /\ callOut' = Fail("Invalid substitute policy schema")
                /\ UNCHANGED eligible
       ELSE /\ eligible' = callIn.policy.eligible
            /\ callOut' = Ok({Constructed("KoreanSubstitutePolicy", callIn.policy)})
    /\ UNCHANGED <<callIn, lunarVars, provVars, policyYear, baseHolidays, subOp,
                   substitutes, warned>>

\* createKoreanCalendar: the three documents are imported and handed to
\* the constructors as they are.
CallCreateKoreanCalendar ==
    /\ callOp = "none"
    /\ callOp' = "createKoreanCalendar"
    /\ dataMap' = NewDataMap(callIn.lunar.rows)
    /\ yearRange' = NewYearRange(callIn.lunar.rows)
    /\ rules' = callIn.holidays.rules
    /\ lunarProvider' = "table"
    /\ eligible' = callIn.policy.eligible
    /\ callOut' = Ok({Constructed("TableLunarProvider", callIn.lunar),
                      Constructed("JsonHolidayProvider", callIn.holidays),
                      Constructed("KoreanSubstitutePolicy", callIn.policy),
                      [engine |-> "CalendarContext", schema |-> "none"]})
    /\ UNCHANGED <<callIn, lunarOp, lunarIn, lunarOut, lunarBack, policyYear,
                   baseHolidays, subOp, substitutes, warned, cache,
                   yearHolidaysCache, heap, calls>>

NextLoad ==
    \/ CallCreateTableLunarProvider
    \/ CallCreateJsonHolidayProvider
    \/ CallCreateKoreanSubstitutePolicy
    \/ CallCreateKoreanCalendar

SpecLoad == InitLoad /\ [][NextLoad]_vars

(***************************************************************************)
(* Calls of dayOfYear, ymdFromDayOfYear and addDays, alone and in chains   *)
(***************************************************************************)
MaxDelta == 2
MaxChain == 2

\* Years of the dates passed: years written with leading zeros, a leap year
\* and the year before it.
CivilYears == {99, 100, 2023, 2024}

\* The valid calendar dates of those years.
CivilInputs ==
    {x \in [y : CivilYears, m : 1..12, d : 1..31] : x.d <= DaysInMonth(x.y, x.m)}

\* The date string YYYY-MM-DD a caller writes for a calendar date.
YMDString(civil) ==
    LET pad4(str) == [i \in 1..(4 - Len(str)) |-> "0"] \o str
    IN pad4(NatStr(civil.y)) \o <<"-">> \o PadStart2(NatStr(civil.m))
           \o <<"-">> \o PadStart2(NatStr(civil.d))

\* The position of a calendar date in its year, 1 for the first of January.
Ordinal(civil) == DaysBeforeMonth(civil.y, civil.m) + civil.d

InitCivil ==
    /\ callIn \in CivilInputs
    /\ callOp = <<>>
    /\ callOut = <<>>
    /\ NoLunarCall
    /\ NoPolicyCall
    /\ NoProviderCall

Applied(fn, arg) == [fn |-> fn, arg |-> arg]

\* dayOfYear of the date passed, or of the date ymdFromDayOfYear returned.
CallDayOfYear ==
    /\ \/ /\ callOp = <<>>
          /\ callOut' = <<dayOfYear(YMDString(callIn))>>
       \/ /\ Len(callOp) = 1 /\ callOp[1].fn = "ymdFromDayOfYear"
          /\ callOut' = Append(callOut, dayOfYear(callOut[1]))
    /\ callOp' = Append(callOp, Applied("dayOfYear", 0))
    /\ UNCHANGED <<callIn, lunarVars, subVars, provVars>>

\* ymdFromDayOfYear of the year and the date's position in it, or of the
\* year and what dayOfYear returned.
CallYmdFromDayOfYear ==
    /\ \/ /\ callOp = <<>>
          /\ callOut' = <<ymdFromDayOfYear(callIn.y, Ordinal(callIn))>>
       \/ /\ Len(callOp) = 1 /\ callOp[1].fn = "dayOfYear"
          /\ callOut' = Append(callOut, ymdFromDayOfYear(callIn.y, callOut[1]))
    /\ callOp' = Append(callOp, Applied("ymdFromDayOfYear", 0))
    /\ UNCHANGED <<callIn, lunarVars, subVars, provVars>>

\* addDays of the date passed, or of the date the last addDays returned.
CallAddDays ==
    /\ Len(callOp) < MaxChain
    /\ \A i \in DOMAIN callOp : callOp[i].fn = "addDays"
    /\ \E delta \in -MaxDelta..MaxDelta :
          /\ callOut' = Append(callOut,
                               addDays(IF callOp = <<>> THEN YMDString(callIn)
                                       ELSE callOut[Len(callOut)], delta))
          /\ callOp' = Append(callOp, Applied("addDays", delta))
    /\ UNCHANGED <<callIn, lunarVars, subVars, provVars>>

NextCivil ==
    \/ CallDayOfYear
    \/ CallYmdFromDayOfYear
    \/ CallAddDays

SpecCivil == InitCivil /\ [][NextCivil]_vars

(***************************************************************************)
(* The lunar table generator (scripts/gen-kr-lunar-v1.kasi): the row       *)
(* written for a year from the month lengths it observed                   *)
(***************************************************************************)
MaxLongMonths == 2

\* n.toString(16).toUpperCase()
RECURSIVE HexStr(_)
HexStr(n) == IF n < 16 THEN <<HexChars[n + 1]>>
             ELSE HexStr(n \div 16) \o <<HexChars[(n % 16) + 1]>>

\* The "Build mask" loop: mask |= 1 << (m - 1) for each regular month m of
\* 30 days, mask |= 1 << 12 for a leap month of 30 days.
RECURSIVE BuildMask(_, _, _, _)
BuildMask(monthLens, leap, leapLen, m) ==
    IF m > 12
        THEN IF leap > 0 /\ leapLen = 30 THEN 2 ^ 12 ELSE 0
    ELSE (IF monthLens[m] = 30 THEN 2 ^ (m - 1) ELSE 0)
         + BuildMask(monthLens, leap, leapLen, m + 1)

\* The YearRow written for the year.
GeneratedRow(year, ny, observed) ==
    [y |-> year, ny |-> ny, leap |-> observed.leap,
     mask |-> <<"0", "x">>
                 \o HexStr(BuildMask(observed.monthLens, observed.leap,
                                     observed.leapLen, 1))]

\* What the generator observed of a year: the length of each regular month,
\* the leap month (0 for none) and its length. Up to MaxLongMonths regular
\* months have 30 days.
ObservedYears ==
    {o \in [monthLens : [1..12 -> {29, 30}], leap : 0..12, leapLen : {0, 29, 30}] :
        /\ Cardinality({m \in 1..12 : o.monthLens[m] = 30}) <= MaxLongMonths
        /\ (o.leap = 0) = (o.leapLen = 0)}

InitGenerate ==
    /\ callIn \in ObservedYears
    /\ callOp = "none"
    /\ callOut = NotRun
    /\ NoLunarCall
    /\ NoPolicyCall
    /\ NoProviderCall

\* The row is written and a TableLunarAlgorithm is constructed from it.
CallGenerateYearRow ==
    /\ callOp = "none"
    /\ callOp' = "generateYearRow"
    /\ callOut' = Ok(GeneratedRow(2023, 22, callIn))
    /\ dataMap' = NewDataMap({GeneratedRow(2023, 22, callIn)})
    /\ yearRange' = NewYearRange({GeneratedRow(2023, 22, callIn)})
    /\ UNCHANGED <<callIn, lunarOp, lunarIn, lunarOut, lunarBack, subVars, provVars>>

NextGenerate == CallGenerateYearRow

SpecGenerate == InitGenerate /\ [][NextGenerate]_vars

(***************************************************************************)
(* The top-level getDayInfo and listHolidays (index), on the holidays the  *)
(* data source gives for the year                                          *)
(***************************************************************************)
\* kr/holidayPolicy mergeHolidays: one list, sorted by date.
legacyMergeHolidays(base, substituteHolidays, extraHolidays) ==
    SortByDate(base \o substituteHolidays \o extraHolidays)

\* index listHolidays(year, opts) without extra holidays: the items.
legacyListHolidays(base, opts) ==
    LET includeSubstitute == IF opts.includeSubstitute = "unset" THEN TRUE
                             ELSE opts.includeSubstitute = "true"
        includeSundays == IF opts.includeSundays = "unset" THEN FALSE
                          ELSE opts.includeSundays = "true"
        NotSunday(h) == getWeekday(h.date) # 0
        filtered(allHolidays) ==
            IF ~includeSundays THEN SelectSeq(allHolidays, NotSunday)
            ELSE allHolidays
    IN filtered(legacyMergeHolidays(
                    base,
                    IF includeSubstitute
                        THEN calculateSubstituteHolidays(base, DefaultPolicy).substitutes
                    ELSE <<>>,
                    <<>>))

\* index getDayInfo(date, opts): the holidays field.
getDayInfoHolidays(date, opts, base) ==
    LET OnDate(h) == h.date = date
    IN IF opts.useOfflineData
           THEN SelectSeq(base, OnDate)
       ELSE SelectSeq(legacyListHolidays(base,
                                           [opts EXCEPT !.includeSubstitute = "true"]),
                        OnDate)

\* The options a caller passes: offline data or the online source, and
\* includeSundays given ("true", "false") or left out ("unset").
DayInfoOptions ==
    [useOfflineData : BOOLEAN, includeSundays : {"unset", "true", "false"},
     includeSubstitute : {"unset"}]

\* The dates asked about: the Sundays of the holidays and the Mondays after.
DayInfoDates == ListedDates \cup {addDays(d, 1) : d \in ListedDates}

InitDayInfo ==
    /\ baseHolidays \in ListedInputs
    /\ callIn \in [date : DayInfoDates, opts : DayInfoOptions]
    /\ callOp = "none"
    /\ callOut = NotRun
    /\ policyYear = 0
    /\ eligible = <<>>
    /\ subOp = "none"
    /\ substitutes = <<>>
    /\ warned = <<>>
    /\ NoLunarCall
    /\ NoProviderCall

CallGetDayInfo ==
    /\ callOp = "none"
    /\ callOp' = "getDayInfo"
    /\ callOut' = Ok([date |-> callIn.date,
                      weekday |-> getWeekday(callIn.date),
                      isWeekend |-> getWeekday(callIn.date) \in {0, 6},
                      holidays |-> getDayInfoHolidays(callIn.date, callIn.opts,
                                                      baseHolidays)])
    /\ UNCHANGED <<callIn, lunarVars, subVars, provVars>>

NextDayInfo == CallGetDayInfo

SpecDayInfo == InitDayInfo /\ [][NextDayInfo]_vars

(***************************************************************************)
(* Properties of the lunar conversions                                     *)
(***************************************************************************)
TableYears == DOMAIN dataMap

TableMin == CHOOSE a \in TableYears : \A b \in TableYears : a <= b

TableMax == CHOOSE a \in TableYears : \A b \in TableYears : a >= b

\* One row for every year between the first and the last.
Contiguous == \A yy \in TableMin..TableMax : yy \in TableYears

\* Bit i (0-indexed) of a row's mask, read off the hex digits.
MaskBit(row, i) ==
    LET digits == SubSeq(row.mask, 3, Len(row.mask))
        pos == Len(digits) - (i \div 4)
    IN IF pos < 1 THEN 0 ELSE (HexVal(digits[pos]) \div (2 ^ (i % 4))) % 2

\* Length of the idx-th month of a row in table order.
EncodedLen(row, idx) == 29 + MaskBit(row, idx - 1)

RECURSIVE CumLen(_, _)
CumLen(row, idx) == IF idx = 0 THEN 0 ELSE CumLen(row, idx - 1) + EncodedLen(row, idx)

\* Table-order position of a lunar month of a row.
TableIndex(row, month, isLeapMonth) ==
    IF row.leap = 0 THEN month
    ELSE IF isLeapMonth THEN row.leap + 1
    ELSE IF month <= row.leap THEN month
    ELSE month + 1

\* The lunar month exists in the year of a row.
MonthExists(row, lunar) ==
    /\ lunar.month \in 1..12
    /\ lunar.isLeapMonth => (row.leap > 0 /\ lunar.month = row.leap)

ValidLunar(lunar) ==
    /\ lunar.year \in TableYears
    /\ MonthExists(dataMap[lunar.year], lunar)
    /\ lunar.day >= 1
    /\ lunar.day <= EncodedLen(dataMap[lunar.year],
           TableIndex(dataMap[lunar.year], lunar.month, lunar.isLeapMonth))

\* Day number of a date string, and of the lunar new year of a table year.
DayNumber(ymd) == LET c == parseYMD(ymd) IN DateUTC(c.y, c.m - 1, c.d)

NewYearDayNumber(yy) == DateUTC(yy, 0, 1) + dataMap[yy].ny - 1

\* C1: lunarToSolar rejects, with an invalid-date error, every lunar date of
\* an existing month whose day exceeds the month's encoded length; it never
\* returns a solar date for it.
C1_DayBeyondMonthRejected ==
    (/\ lunarOp = "lunarToSolar"
     /\ lunarIn.year \in TableYears
     /\ MonthExists(dataMap[lunarIn.year], lunarIn)
     /\ lunarIn.day > EncodedLen(dataMap[lunarIn.year],
            TableIndex(dataMap[lunarIn.year], lunarIn.month, lunarIn.isLeapMonth)))
    => lunarOut.err # "none"

\* C2: for every valid lunar date L of a table year, lunarToSolar(L)
\* succeeds and solarToLunar of its result succeeds and returns L, the
\* last months of the table's last year included.
C2_LunarRoundTrip ==
    (lunarOp = "lunarToSolar" /\ Contiguous /\ ValidLunar(lunarIn))
    => /\ lunarOut.err = "none"
       /\ lunarBack.err # "notrun"
            => (lunarBack.err = "none" /\ lunarBack.val = lunarIn)

\* C3 as stated: for every solar date d of a supported year, solarToLunar(d)
\* succeeds and lunarToSolar of its result returns d.
C3_SolarRoundTripEverySupported ==
    (/\ lunarOp = "solarToLunar"
     /\ Contiguous
     /\ parseYMD(lunarIn).y \in TableMin..TableMax)
    => /\ lunarOut.err = "none"
       /\ lunarBack.err # "notrun"
            => (lunarBack.err = "none" /\ lunarBack.val = lunarIn)

\* The lunar year of a solar date has a row: the date's own year has one and
\* the date is on or after its lunar new year, or the year before has one too.
LunarYearKnown(ymd) ==
    LET yy == parseYMD(ymd).y
    IN /\ yy \in TableYears
       /\ \/ DayNumber(ymd) >= NewYearDayNumber(yy)
          \/ (yy - 1) \in TableYears

\* C3 amended: for every solar date d of a year with a row, whose lunar year
\* has a row as well, solarToLunar(d) succeeds and lunarToSolar of its result
\* succeeds and returns exactly d.
C3_SolarRoundTrip ==
    (lunarOp = "solarToLunar" /\ LunarYearKnown(lunarIn))
    => /\ lunarOut.err = "none"
       /\ lunarBack.err # "notrun"
            => (lunarBack.err = "none" /\ lunarBack.val = lunarIn)

\* A date of the months after a leap month, before its year's lunar new
\* year, went through the round trip.
C3_Witness ==
    /\ lunarOp = "solarToLunar"
    /\ lunarBack.err = "none"
    /\ DayNumber(lunarIn) < NewYearDayNumber(parseYMD(lunarIn).y)
    /\ dataMap[lunarOut.val.year].leap > 0
    /\ lunarOut.val.month > dataMap[lunarOut.val.year].leap

\* C4: the date solarToLunar reports is the table-order month idx whose
\* range of days since the lunar new year holds the date, named month idx
\* (no leap month, or idx <= leap), leap month `leap` (idx = leap + 1) or
\* month idx - 1 (after that), with the 1-based offset into it as the day;
\* month lengths are 29 plus bit idx - 1 of the mask.
C4_MonthIndexMapping ==
    (lunarOp = "solarToLunar" /\ lunarOut.err = "none")
    => LET got == lunarOut.val
           row == dataMap[got.year]
           n == DayNumber(lunarIn) - NewYearDayNumber(got.year)
       IN \E idx \in 1..13 :
            /\ CumLen(row, idx - 1) <= n
            /\ n < CumLen(row, idx)
            /\ got.day = n - CumLen(row, idx - 1) + 1
            /\ IF row.leap = 0 \/ idx <= row.leap
                   THEN got.month = idx /\ ~got.isLeapMonth
               ELSE IF idx = row.leap + 1
                   THEN got.month = row.leap /\ got.isLeapMonth
               ELSE got.month = idx - 1 /\ ~got.isLeapMonth

\* solarToLunar reported a day inside a leap month.
C4_Witness ==
    /\ lunarOp = "solarToLunar"
    /\ lunarOut.err = "none"
    /\ lunarOut.val.isLeapMonth
    /\ lunarOut.val.day > 1

InvalidLeapErrors == {"NoLeapMonth", "WrongLeapMonth"}

\* C5: for a lunar year with a row, lunarToSolar fails with an invalid-date
\* error (and returns no date) exactly when isLeapMonth is set and the year
\* has no leap month or its leap month is another month; never when
\* isLeapMonth is not set.
C5_LeapValidation ==
    (lunarOp = "lunarToSolar" /\ lunarIn.year \in TableYears)
    => LET row == dataMap[lunarIn.year]
       IN (lunarOut.err \in InvalidLeapErrors)
            <=> (lunarIn.isLeapMonth
                 /\ (row.leap = 0 \/ lunarIn.month # row.leap))

\* A leap flag on a month that is not the year's leap month was rejected.
C5_Witness ==
    /\ lunarOp = "lunarToSolar"
    /\ lunarOut.err = "WrongLeapMonth"
    /\ lunarIn.isLeapMonth
    /\ lunarIn.month # dataMap[lunarIn.year].leap

\* C6: solarToLunar fails with the out-of-range error exactly when the
\* date's solar year is outside [first table year, last table year], and
\* lunarToSolar exactly when the lunar year is outside it.
C6_RangeErrorExactly ==
    /\ lunarOp = "solarToLunar"
         => ((lunarOut.err = "OutOfRange")
                <=> (parseYMD(lunarIn).y \notin TableMin..TableMax))
    /\ lunarOp = "lunarToSolar"
         => ((lunarOut.err = "OutOfRange")
                <=> (lunarIn.year \notin TableMin..TableMax))

\* A date of the last table year was converted, in a table of several years.
C6_Witness ==
    /\ lunarOp = "solarToLunar"
    /\ parseYMD(lunarIn).y = TableMax
    /\ TableMin < TableMax
    /\ lunarOut.err = "none"

\* C7: for a date of a year with a row, before that year's lunar new year,
\* solarToLunar answers from the previous year's row, and fails with the
\* missing-data error exactly when that row is absent; a date on or after
\* the lunar new year is answered from its own year's row whether or not
\* the previous row exists.
C7_PreviousRow ==
    (lunarOp = "solarToLunar" /\ parseYMD(lunarIn).y \in TableYears)
    => LET yy == parseYMD(lunarIn).y
       IN IF DayNumber(lunarIn) < NewYearDayNumber(yy)
          THEN IF (yy - 1) \in TableYears
               THEN lunarOut.err = "none" /\ lunarOut.val.year = yy - 1
               ELSE lunarOut.err = "MissingPrevYear"
          ELSE lunarOut.err = "none" /\ lunarOut.val.year = yy

\* The lunar new year's day of a year whose previous row is absent was
\* converted, and a date before it failed for the missing row.
C7_Witness ==
    /\ lunarOp = "solarToLunar"
    /\ parseYMD(lunarIn).y \in TableYears
    /\ (parseYMD(lunarIn).y - 1) \notin TableYears
    /\ DayNumber(lunarIn) = NewYearDayNumber(parseYMD(lunarIn).y)
    /\ lunarOut.err = "none"

\* C27: every LunarDate solarToLunar returns is valid for its lunar year
\* (month in 1..12, day in 1..encoded length of the month, isLeapMonth only
\* on the leap month of the row), and for a date from the lunar new year to
\* 31 December of a year with a row solarToLunar finds the month.
C27_ReturnedLunarValid ==
    lunarOp = "solarToLunar" =>
        /\ lunarOut.err = "none" =>
              /\ ValidLunar(lunarOut.val)
              /\ lunarOut.val.month \in 1..12
              /\ lunarOut.val.isLeapMonth =>
                    dataMap[lunarOut.val.year].leap = lunarOut.val.month
        /\ (/\ parseYMD(lunarIn).y \in TableYears
            /\ DayNumber(lunarIn) >= NewYearDayNumber(parseYMD(lunarIn).y)) =>
              /\ lunarOut.err = "none"
              /\ lunarOut.val.year = parseYMD(lunarIn).y

\* The 31st of December of a year with a leap month was converted: a day of
\* the eleventh month, past the leap month.
C27_Witness ==
    /\ lunarOp = "solarToLunar"
    /\ parseYMD(lunarIn).m = 12
    /\ parseYMD(lunarIn).d = 31
    /\ lunarOut.err = "none"
    /\ dataMap[lunarOut.val.year].leap > 0
    /\ lunarOut.val.month = 11
    /\ ValidLunar(lunarOut.val)

(***************************************************************************)
(* Properties of the substitute policies                                   *)
(***************************************************************************)
\* Day numbers of the dates of a list of entries, as a set and in list order.
DayNumberSet(items) == {DayNumber(items[i].date) : i \in 1..Len(items)}

DayNumberSeq(items) == [i \in 1..Len(items) |-> DayNumber(items[i].date)]

IsWeekendNumber(n) == (n + 1) % 7 \in {0, 6}

\* The base holidays of one date, by position in the list.
Occupants(date) == {j \in 1..Len(baseHolidays) : baseHolidays[j].date = date}

\* The substitutes computed, and the warnings logged, for holidays of one date.
SubstitutesFor(date) ==
    {k \in 1..Len(substitutes) : substitutes[k].substituteFor = date}

WarningsFor(date) == {k \in 1..Len(warned) : warned[k] = date}

\* The j-th base holiday is a DAY entry with a substitute right in policyYear.
EligibleDay(j) ==
    /\ baseHolidays[j].id \in DOMAIN eligible
    /\ policyYear >= eligible[baseHolidays[j].id]
    /\ baseHolidays[j].variant = "DAY"

\* The j-th base holiday is a festival day with a Sunday among the day
\* before, the day and the day after.
FestivalOnSunday(j) ==
    /\ baseHolidays[j].id \in {"KR_SEOLLAL", "KR_CHUSEOK"}
    /\ \E delta \in {-1, 0, 1} :
           (DayNumber(baseHolidays[j].date) + delta + 1) % 7 = 0

\* C8: every substitute returned by apply names in substituteFor the date D
\* of a base holiday, and its date is the earliest day after D that is not a
\* Saturday or Sunday, not the date of a base holiday and not the date of a
\* substitute assigned earlier in the same call.
C8_EarliestFreeDay ==
    subOp = "apply" =>
        LET holds(baseDays, subDays) ==
                \A k \in 1..Len(substitutes) :
                    LET free(n) ==
                            /\ ~IsWeekendNumber(n)
                            /\ n \notin baseDays
                            /\ \A j \in 1..(k - 1) : subDays[j] # n
                        earliest(D, n) ==
                            /\ n > D
                            /\ free(n)
                            /\ \A x \in (D + 1)..(n - 1) : ~free(x)
                    IN /\ Occupants(substitutes[k].substituteFor) # {}
                       /\ formatYMD(CivilFromDay(subDays[k])) = substitutes[k].date
                       /\ earliest(DayNumber(substitutes[k].substituteFor), subDays[k])
        IN holds(DayNumberSet(baseHolidays), DayNumberSeq(substitutes))

\* apply returned a substitute whose search passed over both the date of a
\* base holiday and the date of a substitute assigned before it.
C8_Witness ==
    /\ subOp = "apply"
    /\ LET reached(baseDays, subDays) ==
               \E k \in 2..Len(substitutes) :
                   LET between(D, n) ==
                           /\ \E j \in 1..(k - 1) : D < subDays[j] /\ subDays[j] < n
                           /\ \E b \in baseDays : D < b /\ b < n
                   IN between(DayNumber(substitutes[k].substituteFor), subDays[k])
       IN reached(DayNumberSet(baseHolidays), DayNumberSeq(substitutes))

\* C9: in the result of one substitute computation (apply or
\* calculateSubstituteHolidays) no two substitutes have the same date, and no
\* substitute is on a Saturday, a Sunday or the date of a base holiday.
C9_AntiChaining ==
    subOp \in {"apply", "calculateSubstituteHolidays"} =>
        LET holds(baseDays, subDays) ==
                /\ \A j, k \in 1..Len(substitutes) :
                       j # k => /\ subDays[j] # subDays[k]
                                /\ substitutes[j].date # substitutes[k].date
                /\ \A k \in 1..Len(substitutes) :
                       /\ ~IsWeekendNumber(subDays[k])
                       /\ subDays[k] \notin baseDays
        IN holds(DayNumberSet(baseHolidays), DayNumberSeq(substitutes))

\* calculateSubstituteHolidays returned substitutes for holidays on a
\* Saturday and on the Sunday after it.
C9_Witness ==
    /\ subOp = "calculateSubstituteHolidays"
    /\ \E j, k \in 1..Len(substitutes) :
           LET consecutive(sat, sun) ==
                   (sat + 1) % 7 = 6 /\ sun = sat + 1
           IN consecutive(DayNumber(substitutes[j].substituteFor),
                          DayNumber(substitutes[k].substituteFor))

\* C10 as stated: of the base holidays sharing a date, every occupant after
\* the first that is eligible and a DAY entry has its own substitute; two
\* eligible DAY holidays colliding on a weekday give exactly one substitute
\* and three give exactly two, on distinct days.
C10_CollisionAlwaysSubstitute ==
    subOp = "apply" =>
        \A i \in 1..Len(baseHolidays) :
            LET stated(date, occupants, subs) ==
                    /\ Cardinality(subs)
                           >= Cardinality({j \in occupants :
                                  EligibleDay(j) /\ \E e \in occupants : e < j})
                    /\ (/\ ~IsWeekendNumber(DayNumber(date))
                        /\ \A j \in occupants : EligibleDay(j))
                       => /\ Cardinality(subs) = Cardinality(occupants) - 1
                          /\ \A a, b \in subs :
                                 a # b => substitutes[a].date # substitutes[b].date
            IN Cardinality(Occupants(baseHolidays[i].date)) >= 2
                   => stated(baseHolidays[i].date,
                             Occupants(baseHolidays[i].date),
                             SubstitutesFor(baseHolidays[i].date))

\* C10 amended: of the base holidays sharing a date, the eligible DAY
\* occupants for which apply looks for a substitute are the ones after the
\* first, and the first only when the date is a Saturday or Sunday or the
\* festival rule applies to it; each of them has its own substitute, on a day
\* of its own, or, when none of the MaxAttempts days after the date is free,
\* a warning and no substitute.
C10_CollisionRule ==
    subOp = "apply" =>
        LET holds(baseDays, subDays) ==
                \A i \in 1..Len(baseHolidays) :
                    LET amended(date, D, occupants, subs, warnings) ==
                            /\ Cardinality(subs) + Cardinality(warnings)
                                   = Cardinality({j \in occupants :
                                         /\ EligibleDay(j)
                                         /\ \/ \E e \in occupants : e < j
                                            \/ IsWeekendNumber(D)
                                            \/ FestivalOnSunday(j)})
                            /\ \A a, b \in subs : a # b => subDays[a] # subDays[b]
                            /\ warnings # {}
                                   => \A x \in 1..MaxAttempts :
                                          \/ IsWeekendNumber(D + x)
                                          \/ (D + x) \in baseDays
                                          \/ \E k \in 1..Len(substitutes) :
                                                 subDays[k] = D + x
                    IN Cardinality(Occupants(baseHolidays[i].date)) >= 2
                           => amended(baseHolidays[i].date,
                                      DayNumber(baseHolidays[i].date),
                                      Occupants(baseHolidays[i].date),
                                      SubstitutesFor(baseHolidays[i].date),
                                      WarningsFor(baseHolidays[i].date))
        IN holds(DayNumberSet(baseHolidays), DayNumberSeq(substitutes))

\* apply ran on three eligible DAY holidays of one weekday, none of them a
\* festival day, and returned two substitutes for them.
C10_Witness ==
    /\ subOp = "apply"
    /\ \E i \in 1..Len(baseHolidays) :
           LET three(date, occupants) ==
                   /\ Cardinality(occupants) = 3
                   /\ ~IsWeekendNumber(DayNumber(date))
                   /\ \A j \in occupants : EligibleDay(j) /\ ~FestivalOnSunday(j)
                   /\ Cardinality(SubstitutesFor(date)) = 2
           IN three(baseHolidays[i].date, Occupants(baseHolidays[i].date))

\* None of the MaxAttempts days after day D is free: each is a Saturday or
\* Sunday, the date of a base holiday or the date of a substitute.
SearchExhausted(D, baseDays, subDays) ==
    \A x \in 1..MaxAttempts :
        \/ IsWeekendNumber(D + x)
        \/ (D + x) \in baseDays
        \/ \E k \in DOMAIN subDays : subDays[k] = D + x

\* C11: every eligible DAY holiday on a Saturday or Sunday has exactly one
\* substitute of its own (a warning instead when none of the MaxAttempts
\* days after it is free); an eligible DAY holiday alone on a weekday that is
\* not a 3-day festival has none; a single eligible holiday on Sunday
\* 2024-01-07 gives exactly one substitute, dated 2024-01-08.
C11_WeekendRule ==
    subOp = "apply" =>
        LET holds(baseDays, subDays) ==
                /\ \A i \in 1..Len(baseHolidays) :
                       LET rule(date, D, occupants, subs, warnings) ==
                               /\ IsWeekendNumber(D)
                                      => /\ Cardinality(subs) + Cardinality(warnings)
                                                = Cardinality({j \in occupants :
                                                                  EligibleDay(j)})
                                         /\ warnings # {}
                                                => SearchExhausted(D, baseDays, subDays)
                               /\ (/\ ~IsWeekendNumber(D)
                                   /\ occupants = {i}
                                   /\ EligibleDay(i)
                                   /\ baseHolidays[i].id
                                          \notin {"KR_SEOLLAL", "KR_CHUSEOK"})
                                      => subs = {} /\ warnings = {}
                       IN rule(baseHolidays[i].date,
                               DayNumber(baseHolidays[i].date),
                               Occupants(baseHolidays[i].date),
                               SubstitutesFor(baseHolidays[i].date),
                               WarningsFor(baseHolidays[i].date))
                /\ (/\ Len(baseHolidays) = 1
                    /\ EligibleDay(1)
                    /\ baseHolidays[1].date = formatYMD([y |-> 2024, m |-> 1, d |-> 7]))
                       => /\ Len(substitutes) = 1
                          /\ substitutes[1].date
                                 = formatYMD([y |-> 2024, m |-> 1, d |-> 8])
        IN holds(DayNumberSet(baseHolidays), DayNumberSeq(substitutes))

\* apply ran on the single eligible DAY holiday of Sunday 2024-01-07 and
\* returned one substitute.
C11_Witness ==
    /\ subOp = "apply"
    /\ Len(baseHolidays) = 1
    /\ EligibleDay(1)
    /\ baseHolidays[1].date = formatYMD([y |-> 2024, m |-> 1, d |-> 7])
    /\ Len(substitutes) = 1

\* The j-th base holiday is an eligible DAY entry of a 3-day festival, alone
\* on its date, with a Sunday among the day before, the day and the day after.
FestivalDayAlone(j) ==
    /\ EligibleDay(j)
    /\ FestivalOnSunday(j)
    /\ Occupants(baseHolidays[j].date) = {j}

\* No entry of the date is a DAY entry.
NoDayEntry(date) ==
    \A j \in Occupants(date) : baseHolidays[j].variant # "DAY"

\* C12 as stated: an eligible festival DAY entry with a Sunday among the day
\* before, the day and the day after always has exactly one substitute,
\* naming the DAY date; PRE and POST entries have none.
C12_FestivalAlwaysSubstitute ==
    subOp = "apply" =>
        \A i \in 1..Len(baseHolidays) :
            /\ FestivalDayAlone(i)
                   => Cardinality(SubstitutesFor(baseHolidays[i].date)) = 1
            /\ NoDayEntry(baseHolidays[i].date)
                   => SubstitutesFor(baseHolidays[i].date) = {}

\* C12 amended: an eligible festival DAY entry with a Sunday among the day
\* before, the day and the day after has exactly one substitute, naming the
\* DAY date, also when the DAY date is a weekday, or, when none of the
\* MaxAttempts days after it is free, one warning and no substitute; PRE and
\* POST entries have neither.
C12_FestivalRule ==
    subOp = "apply" =>
        LET holds(baseDays, subDays) ==
                \A i \in 1..Len(baseHolidays) :
                    LET rule(D, subs, warnings) ==
                            /\ FestivalDayAlone(i)
                                   => /\ Cardinality(subs) + Cardinality(warnings) = 1
                                      /\ warnings # {}
                                             => SearchExhausted(D, baseDays, subDays)
                            /\ NoDayEntry(baseHolidays[i].date)
                                   => subs = {} /\ warnings = {}
                    IN rule(DayNumber(baseHolidays[i].date),
                            SubstitutesFor(baseHolidays[i].date),
                            WarningsFor(baseHolidays[i].date))
        IN holds(DayNumberSet(baseHolidays), DayNumberSeq(substitutes))

\* apply ran on a festival with its PRE entry on a Sunday and its DAY entry
\* on the Monday after, and returned one substitute, for the Monday.
C12_Witness ==
    /\ subOp = "apply"
    /\ Len(substitutes) = 1
    /\ \E i, j \in 1..Len(baseHolidays) :
           /\ FestivalDayAlone(i)
           /\ baseHolidays[j].variant = "PRE"
           /\ baseHolidays[j].id = baseHolidays[i].id
           /\ DayNumber(baseHolidays[j].date) + 1 = DayNumber(baseHolidays[i].date)
           /\ (DayNumber(baseHolidays[j].date) + 1) % 7 = 0
           /\ substitutes[1].substituteFor = baseHolidays[i].date

\* The j-th base holiday is one apply looks for a substitute for: an eligible
\* DAY entry on a Saturday or Sunday, after another entry of its date, or of
\* a festival with a Sunday next to it.
WantsSubstitute(j) ==
    /\ EligibleDay(j)
    /\ \/ IsWeekendNumber(DayNumber(baseHolidays[j].date))
       \/ \E e \in Occupants(baseHolidays[j].date) : e < j
       \/ FestivalOnSunday(j)

\* C14: the search tries at most MaxAttempts (at least 10) days, so every
\* substitute is within MaxAttempts days of its holiday; apply returns for
\* every list, and every holiday it looks for a substitute for, before or
\* after one whose search ran out, has a substitute or a warning: the
\* warnings are exactly as many as the holidays with no substitute, and
\* each is for a holiday with no free day among the MaxAttempts days after it.
C14_SearchBounded ==
    subOp = "apply" =>
        LET holds(baseDays, subDays) ==
                /\ MaxAttempts >= 10
                /\ \A k \in 1..Len(substitutes) :
                       /\ subDays[k] > DayNumber(substitutes[k].substituteFor)
                       /\ subDays[k] <= DayNumber(substitutes[k].substituteFor)
                                            + MaxAttempts
                /\ \A k \in 1..Len(warned) :
                       /\ Occupants(warned[k]) # {}
                       /\ SearchExhausted(DayNumber(warned[k]), baseDays, subDays)
                /\ \A i \in 1..Len(baseHolidays) :
                       Cardinality(SubstitutesFor(baseHolidays[i].date))
                           + Cardinality(WarningsFor(baseHolidays[i].date))
                       = Cardinality({j \in Occupants(baseHolidays[i].date) :
                                         WantsSubstitute(j)})
        IN holds(DayNumberSet(baseHolidays), DayNumberSeq(substitutes))

\* apply logged the warning for one holiday and returned a substitute for a
\* holiday later in the list, found at the last attempt of its search.
C14_Witness ==
    /\ subOp = "apply"
    /\ \E i, j \in 1..Len(baseHolidays) :
           /\ i < j
           /\ WarningsFor(baseHolidays[i].date) # {}
           /\ SubstitutesFor(baseHolidays[i].date) = {}
           /\ \E k \in SubstitutesFor(baseHolidays[j].date) :
                  DayNumber(substitutes[k].date)
                      = DayNumber(baseHolidays[j].date) + MaxAttempts

\* The id of the j-th base holiday is a key of the eligibility table with a
\* from year not after policyYear.
ListedFromYear(j) ==
    /\ baseHolidays[j].id \in DOMAIN eligible
    /\ policyYear >= eligible[baseHolidays[j].id]

\* C13: apply treats a base holiday as eligible exactly when its id is a
\* key of the table and policyYear >= its from year, whatever the from year:
\* a holiday not so listed never has a substitute, and every DAY entry so
\* listed on a Saturday or Sunday has one (a warning when no day is free).
C13_EligibleIffListed ==
    subOp = "apply" =>
        \A i \in 1..Len(baseHolidays) :
            LET considered(occupants, subs, warnings) ==
                    /\ (\A j \in occupants : ~ListedFromYear(j))
                           => subs = {} /\ warnings = {}
                    /\ IsWeekendNumber(DayNumber(baseHolidays[i].date))
                           => Cardinality(subs) + Cardinality(warnings)
                                  = Cardinality({j \in occupants :
                                        /\ ListedFromYear(j)
                                        /\ baseHolidays[j].variant = "DAY"})
            IN considered(Occupants(baseHolidays[i].date),
                          SubstitutesFor(baseHolidays[i].date),
                          WarningsFor(baseHolidays[i].date))

\* C15: the list of substitutes returned by apply is sorted ascending by
\* date, for every list of base holidays, date-sorted or not.
C15_SortedOutput ==
    subOp = "apply" =>
        \A k \in 1..(Len(substitutes) - 1) :
            DayNumber(substitutes[k].date) <= DayNumber(substitutes[k + 1].date)

(***************************************************************************)
(* Properties of the holiday provider                                      *)
(***************************************************************************)
\* The year a date string names: the number before its first "-".
YearOfDate(ymd) == ToNumber(SplitDash(ymd, 1, <<>>)[1])

\* The items of a list that carry the id, in the list's order.
ItemsWithId(items, id) ==
    LET HasId(h) == h.id = id
    IN SelectSeq(items, HasId)

\* A getBaseHolidays call that went through the rules and has returned.
Expanded(c) ==
    /\ calls[c].op = "getBaseHolidays"
    /\ calls[c].pc = "done"
    /\ ~calls[c].hit

BaseLunarDate(year, ruleData) ==
    lunarToSolar([year |-> year, month |-> ruleData.month, day |-> ruleData.day,
                  isLeapMonth |-> FALSE])

\* `its` is one item per offset in -b..a around day number n, in that order.
PaddedAround(its, ruleData, n) ==
    LET b == IF ruleData.pad = <<>> THEN 0 ELSE ruleData.pad[1]
        a == IF ruleData.pad = <<>> THEN 0 ELSE ruleData.pad[2]
    IN /\ Len(its) = b + a + 1
       /\ \A i \in 1..Len(its) :
             /\ its[i].date = formatYMD(CivilFromDay(n + (i - 1 - b)))
             /\ its[i].variant = CASE i - 1 - b < 0 -> "PRE"
                                    [] i - 1 - b = 0 -> "DAY"
                                    [] i - 1 - b > 0 -> "POST"
             /\ its[i].id = ruleData.id
             /\ its[i].kind = ruleData.kind
             /\ its[i].name = ruleData.name

\* C16: a fixed-lunar rule padded {before: b, after: a} whose lunar date
\* converts to B yields exactly b + a + 1 items, one per offset in -b..a,
\* dated B + offset, PRE before B, DAY on B and POST after it; Seollal yields,
\* for every year with a row in the table, PRE, DAY, POST on three consecutive
\* dates centred on the converted lunar new year.
C16_PaddedExpansion ==
    \A c \in DOMAIN calls :
        (Expanded(c) /\ lunarProvider = "table") =>
            \A k \in DOMAIN rules :
                rules[k].type = "fixed_lunar" =>
                    LET holds(B, its) ==
                            /\ B.err = "none" =>
                                   PaddedAround(its, rules[k], DayNumber(B.val))
                            /\ (rules[k] = SeollalRule
                                    /\ calls[c].year \in DOMAIN dataMap) =>
                                   /\ B.err = "none"
                                   /\ Len(its) = 3
                                   /\ DayNumber(its[1].date) + 1 = DayNumber(B.val)
                                   /\ DayNumber(its[3].date) - 1 = DayNumber(B.val)
                                   /\ its[2].date = B.val
                    IN holds(BaseLunarDate(calls[c].year, rules[k]),
                             ItemsWithId(heap[calls[c].result], rules[k].id))

\* Seollal and a rule padded after only, expanded for 2025: five items.
C16_Witness ==
    /\ rules = <<SeollalRule, BuddhaRule(<<0, 1>>)>>
    /\ lunarProvider = "table"
    /\ Expanded(1)
    /\ calls[1].year = 2025
    /\ Len(heap[calls[1].result]) = 5
    /\ heap[calls[1].result][2].date = <<"2", "0", "2", "5", "-", "0", "1", "-", "2", "9">>
    /\ heap[calls[1].result][5].variant = "POST"

\* The list one uninterrupted getBaseHolidays(year) call over the rules `rs`
\* builds on an empty cache, or the error that escapes it.
RECURSIVE ExpandRules(_, _, _, _)
ExpandRules(year, rs, k, holidays) ==
    IF k > Len(rs) THEN Ok(SortByDate(holidays))
    ELSE LET pushed(items) ==
                 IF items.err # "none" THEN items
                 ELSE ExpandRules(year, rs, k + 1, holidays \o items.val)
         IN pushed(processRule(year, rs[k]))

\* The rule cannot be expanded for the year: no lunar provider, or its lunar
\* date is not converted (year outside the table, or no row for the year).
RuleFails(year, ruleData) ==
    /\ ruleData.type = "fixed_lunar"
    /\ \/ lunarProvider = "none"
       \/ BaseLunarDate(year, ruleData).err # "none"

RulesThatExpand(year) ==
    LET Expands(ruleData) == ~RuleFails(year, ruleData)
    IN SelectSeq(rules, Expands)

\* C17: when the expansion of a rule fails (no lunar provider, year outside
\* the table, conversion error), getBaseHolidays does not throw; the failing
\* rule contributes nothing and the list returned is the one the rule list
\* without the failing rules gives.
C17_RuleFailureSkipped ==
    \A c \in DOMAIN calls :
        /\ calls[c].pc # "threw"
        /\ Expanded(c) =>
              /\ \A k \in DOMAIN rules :
                    RuleFails(calls[c].year, rules[k]) =>
                        ItemsWithId(heap[calls[c].result], rules[k].id) = <<>>
              /\ Ok(heap[calls[c].result])
                     = ExpandRules(calls[c].year, RulesThatExpand(calls[c].year),
                                   1, <<>>)

\* Seollal declared before New Year, expanded for 2026 with a table that
\* ends in 2025: the New Year item alone.
C17_Witness ==
    /\ rules = <<SeollalRule, NewYearRule>>
    /\ lunarProvider = "table"
    /\ Expanded(1)
    /\ calls[1].year = 2026
    /\ RuleFails(2026, SeollalRule)
    /\ Len(heap[calls[1].result]) = 1
    /\ heap[calls[1].result][1].id = "KR_NEWYEAR"

\* The place of the rule with the id in the rule list.
RuleIndex(id) == CHOOSE k \in DOMAIN rules : rules[k].id = id

\* C18: the list getBaseHolidays returns is ascending by date, and items of
\* equal date are in the order their rules are declared.
C18_SortedStable ==
    \A c \in DOMAIN calls :
        Expanded(c) =>
            LET sorted(items, days) ==
                    \A i, j \in 1..Len(items) :
                        i < j =>
                            /\ days[i] <= days[j]
                            /\ ~StrLess(items[j].date, items[i].date, 1)
                            /\ days[i] = days[j] =>
                                   RuleIndex(items[i].id) < RuleIndex(items[j].id)
            IN sorted(heap[calls[c].result], DayNumberSeq(heap[calls[c].result]))

\* Children's Day declared before Buddha's Birthday padded by a day on each
\* side, expanded for 2025: the day before comes first, and on 2025-05-05
\* Children's Day stays ahead of Buddha's Birthday.
C18_Witness ==
    /\ rules = <<ChildrenRule, BuddhaRule(<<1, 1>>)>>
    /\ lunarProvider = "table"
    /\ Expanded(1)
    /\ calls[1].year = 2025
    /\ Len(heap[calls[1].result]) = 4
    /\ heap[calls[1].result][1].variant = "PRE"
    /\ heap[calls[1].result][2].id = "KR_CHILDREN"
    /\ heap[calls[1].result][3].id = "KR_BUDDHA"
    /\ heap[calls[1].result][2].date = heap[calls[1].result][3].date

\* The list one uninterrupted listHolidays(year) call builds on empty caches.
ListedSequentially(year) ==
    LET merged(baseList) == SortByDate(baseList \o apply(year, baseList).substitutes)
    IN merged(ExpandRules(year, rules, 1, <<>>).val)

\* What a finished call of the operation gives when it runs alone.
SequentialValue(op, year) ==
    IF op = "getBaseHolidays" THEN ExpandRules(year, rules, 1, <<>>).val
    ELSE ListedSequentially(year)

\* C19: however concurrent getBaseHolidays / listHolidays calls interleave
\* at their awaits, an entry of either cache is the complete sorted list a
\* call running alone would have stored, never a partial one, and all
\* finished calls of one operation and year have lists of equal contents.
C19_CacheWholeValues ==
    /\ \A year \in DOMAIN cache :
          heap[cache[year]] = SequentialValue("getBaseHolidays", year)
    /\ \A year \in DOMAIN yearHolidaysCache :
          heap[yearHolidaysCache[year]] = SequentialValue("listHolidays", year)
    /\ \A c \in DOMAIN calls :
          /\ calls[c].pc # "threw"
          /\ calls[c].pc = "done" =>
                heap[calls[c].result] = SequentialValue(calls[c].op, calls[c].year)
    /\ \A c, d \in DOMAIN calls :
          (/\ calls[c].pc = "done" /\ calls[d].pc = "done"
           /\ calls[c].op = calls[d].op /\ calls[c].year = calls[d].year) =>
              heap[calls[c].result] = heap[calls[d].result]

\* Two getBaseHolidays(2024) calls that both missed the cache and both went
\* through the rules have finished, the second write replacing the first.
C19_Witness ==
    /\ Expanded(1) /\ Expanded(2)
    /\ calls[1].year = 2024 /\ calls[2].year = 2024
    /\ calls[1].result # calls[2].result
    /\ cache[2024] = calls[2].result
    /\ Len(heap[cache[2024]]) = 5
    /\ heap[calls[1].result] = heap[calls[2].result]

\* C20 as stated: all getBaseHolidays calls for one year return the very
\* same array, and at most the first of them expands the rules, whether or
\* not it had completed when the others started.
C20_SameArrayAlways ==
    \A c, d \in DOMAIN calls :
        (/\ c # d
         /\ calls[c].op = "getBaseHolidays" /\ calls[c].pc = "done"
         /\ calls[d].op = "getBaseHolidays" /\ calls[d].pc = "done"
         /\ calls[c].year = calls[d].year) =>
            /\ calls[c].result = calls[d].result
            /\ calls[c].hit \/ calls[d].hit

\* C20: a getBaseHolidays(year) call that starts when the cache holds an
\* entry for the year (an earlier call for it has completed) returns that
\* very array at once, without expanding the rules and without touching the
\* cache; and the entry of a year changes only when a call for that year
\* completes its expansion.
C20_CachedArrayReturned ==
    [][/\ \A c \in DOMAIN calls :
             (/\ calls[c].pc = "idle"
              /\ calls'[c].op = "getBaseHolidays"
              /\ calls'[c].year \in DOMAIN cache) =>
                 /\ calls'[c].pc = "done"
                 /\ calls'[c].hit
                 /\ calls'[c].result = cache[calls'[c].year]
                 /\ heap' = heap
                 /\ cache' = cache
       /\ \A year \in DOMAIN cache :
             /\ year \in DOMAIN cache'
             /\ cache'[year] # cache[year] =>
                   \E c \in DOMAIN calls :
                       /\ calls[c].pc = "rules"
                       /\ calls'[c].pc # "rules"
                       /\ calls[c].year = year
       /\ \A i \in DOMAIN heap : i \in DOMAIN heap' /\ heap'[i] = heap[i]]_vars

\* The second caller asked for 2025 after the first caller's call for 2025
\* had completed, and was given the first caller's array.
C20_Witness ==
    /\ Expanded(1)
    /\ calls[1].year = 2025
    /\ calls[2].op = "getBaseHolidays"
    /\ calls[2].year = 2025
    /\ calls[2].pc = "done"
    /\ calls[2].hit
    /\ calls[2].result = calls[1].result
    /\ cache[2025] = calls[1].result

\* C28: every item getBaseHolidays(Y) or listHolidays(Y) returns, base item
\* or substitute, has a date of calendar year Y.
C28_DatesInsideYear ==
    \A c \in DOMAIN calls :
        calls[c].pc = "done" =>
            \A i \in 1..Len(heap[calls[c].result]) :
                YearOfDate(heap[calls[c].result][i].date) = calls[c].year

\* What listHolidays(year, {includeSubstitute}) computes with empty caches.
Uncached(year, includeSubstitute) ==
    IF includeSubstitute THEN ListedSequentially(year)
    ELSE ExpandRules(year, rules, 1, <<>>).val

\* C29: without extra holidays, a finished listHolidays call returns what
\* an uncached computation for its (year, includeSubstitute) pair returns,
\* and a call answered from the cache is given the array a call for the
\* same pair stored.
C29_CacheTransparent ==
    \A c \in DOMAIN calls :
        (calls[c].op = "listHolidays" /\ calls[c].pc = "done") =>
            /\ heap[calls[c].result] =
                   Uncached(calls[c].year, calls[c].includeSubstitute)
            /\ calls[c].hit =>
                   \E d \in DOMAIN calls :
                       /\ calls[d].op = "listHolidays"
                       /\ calls[d].pc = "done"
                       /\ ~calls[d].hit
                       /\ calls[d].year = calls[c].year
                       /\ calls[d].includeSubstitute = calls[c].includeSubstitute
                       /\ calls[d].result = calls[c].result

\* C30: whatever the callers of earlier calls did to the lists they were
\* given, a getBaseHolidays or listHolidays call that finishes returns the
\* list the rules give for its year.
C30_CallerCannotChangeLater ==
    [][\A c \in DOMAIN calls :
           (calls[c].pc # "done" /\ calls'[c].pc = "done") =>
               heap'[calls'[c].result] =
                   SequentialValue(calls'[c].op, calls'[c].year)]_vars

(***************************************************************************)
(* Properties of the loaders                                               *)
(***************************************************************************)
\* The tag expected of the document an object is constructed from.
ExpectedSchema(engine) ==
    CASE engine = "TableLunarProvider" -> "kr.lunar.v1"
      [] engine = "JsonHolidayProvider" -> "kr.holidays.v1"
      [] engine = "KoreanSubstitutePolicy" -> "kr.substitute.v1"
      [] OTHER -> "none"

\* C21: no engine, provider or policy is constructed from a document whose
\* schema tag is not the expected one (kr.lunar.v1, kr.holidays.v1,
\* kr.substitute.v1), on any construction path: a mismatched tag is a
\* failure, and nothing has been constructed when it is reported.
C21_SchemaChecked ==
    /\ callOut.err = "none" =>
          \A object \in callOut.val :
              object.schema = ExpectedSchema(object.engine)
    /\ callOut.err \notin {"none", "notrun"} =>
          /\ dataMap = <<>>
          /\ rules = <<>>
          /\ eligible = <<>>

(***************************************************************************)
(* Properties of the civil date utilities                                  *)
(***************************************************************************)
\* C22: ymdFromDayOfYear(y, dayOfYear(ymd)) is ymd for every valid date ymd
\* of year y, and for every position doy of year y
\* dayOfYear(ymdFromDayOfYear(y, doy)) is doy and the date lies in year y.
C22_DayOfYearRoundTrip ==
    /\ (Len(callOp) = 2 /\ callOp[1].fn = "dayOfYear") =>
          callOut[2] = YMDString(callIn)
    /\ (Len(callOp) >= 1 /\ callOp[1].fn = "ymdFromDayOfYear") =>
          YearOfDate(callOut[1]) = callIn.y
    /\ (Len(callOp) = 2 /\ callOp[1].fn = "ymdFromDayOfYear") =>
          callOut[2] = Ordinal(callIn)

\* C23: addDays(addDays(d, a), b) is addDays(d, a + b) for every valid date
\* d and all a and b; addDays(addDays(d, n), -n) is d.
C23_AddDaysComposes ==
    (Len(callOp) = 2 /\ callOp[1].fn = "addDays") =>
        /\ callOut[2] = addDays(YMDString(callIn), callOp[1].arg + callOp[2].arg)
        /\ callOp[1].arg + callOp[2].arg = 0 => callOut[2] = YMDString(callIn)

(***************************************************************************)
(* Properties of the lunar table generator                                 *)
(***************************************************************************)
\* The length observed for the idx-th month of the sequence
\* 1, ..., p, leap p, p + 1, ..., 12.
ObservedLen(observed, idx) ==
    IF observed.leap = 0 \/ idx <= observed.leap THEN observed.monthLens[idx]
    ELSE IF idx = observed.leap + 1 THEN observed.leapLen
    ELSE observed.monthLens[idx - 1]

\* C25: the mask written by the generator holds the month lengths in table
\* order: the engine's decoding, 29 + bit (idx - 1), gives for each of the
\* 12 or 13 months of the year the length the generator observed.
C25_MaskInTableOrder ==
    callOp = "generateYearRow" =>
        \A idx \in 1..(IF callIn.leap = 0 THEN 12 ELSE 13) :
            MonthLen(ParseIntHex(dataMap[2023].mask), idx) = ObservedLen(callIn, idx)

(***************************************************************************)
(* Properties of the top-level getDayInfo                                  *)
(***************************************************************************)
\* C24: the holidays field of getDayInfo(date) holds every holiday of the
\* year (from the data source, and with the online source every substitute)
\* whose date is the date asked about, Saturdays and Sundays included.
C24_DayInfoHasEveryHoliday ==
    callOp = "getDayInfo" =>
        LET has(found, all) ==
                \A i \in 1..Len(all) :
                    all[i].date = callIn.date =>
                        \E j \in 1..Len(found) : found[j] = all[i]
        IN has(callOut.val.holidays,
               IF callIn.opts.useOfflineData THEN baseHolidays
               ELSE baseHolidays
                    \o calculateSubstituteHolidays(baseHolidays,
                                                   DefaultPolicy).substitutes)

(***************************************************************************)
(* Properties of calculateSubstituteHolidays                               *)
(***************************************************************************)
\* C26: every item calculateSubstituteHolidays returns has kind
\* "SUBSTITUTE", id "KR_SUBSTITUTE" and, as substituteFor, the date of a
\* weekend holiday of the list it replaces.
C26_LegacySubstituteFields ==
    subOp = "calculateSubstituteHolidays" =>
        \A i \in 1..Len(substitutes) :
            /\ substitutes[i].kind = "SUBSTITUTE"
            /\ \E j \in 1..Len(baseHolidays) :
                  /\ baseHolidays[j].date = substitutes[i].substituteFor
                  /\ IsWeekendNumber(DayNumber(baseHolidays[j].date))
            /\ "id" \in DOMAIN substitutes[i]
            /\ substitutes[i].id = "KR_SUBSTITUTE"

====
